---- MODULE Spec2Model ----
(***************************************************************************)
(* Contract management: the lifecycle engine (utils/stateMachine), the     *)
(* contract store (stores/contractStore.ts) and the blueprint store        *)
(* (stores/blueprintStore.ts), as a state machine.                         *)
(*                                                                         *)
(* JavaScript values.  Primitive values are strings: "null", "undefined",  *)
(* "true", "false" and text.  An object-or-undefined value (the result of  *)
(* Array.find, the return value of createContract) is the record or        *)
(* Undefined.  The boolean a store operation returns is TRUE or FALSE.     *)
(***************************************************************************)
EXTENDS Integers, Sequences, FiniteSets, TLC

VARIABLES
    blueprints,   \* useBlueprintStore state: Blueprint[]
    contracts,    \* useContractStore state: Contract[]
    nextId,       \* how many ids generateId() has handed out, per kind
    now,          \* the clock getCurrentTimestamp() reads
    result,       \* the last store operation called and the value it returned
    query,        \* a lifecycle-engine call: its arguments and its answer
    history,      \* observer: per contract id, the last HistoryWindow statuses
    debounced     \* a debounce(fn, ms) closure: its timeoutId, the timers, the calls

store == <<blueprints, contracts, nextId, now, result>>

vars == <<blueprints, contracts, nextId, now, result, query, history, debounced>>

(***************************************************************************)
(* Bounds of the model.                                                    *)
(***************************************************************************)
MaxContracts == 2       \* contracts created in a run
MaxUserBlueprints == 1  \* blueprints added in a run, on top of the four seeds
HistoryWindow == 4      \* statuses the observer remembers per contract
MaxTime == 2            \* clock readings 0..MaxTime
MaxDrafts == 1          \* contracts held at a time in a run that observes edits
DebounceMs == 2         \* the ms argument of debounce(fn, ms)
MaxCalls == 3           \* calls of the debounced function in a run
MaxClock == 4           \* timer clock readings 0..MaxClock

Undefined == [undefined |-> TRUE]

(***************************************************************************)
(* Array helpers, as the code uses them.                                   *)
(***************************************************************************)
includes(arr, x) == \E i \in DOMAIN arr : arr[i] = x

some(arr, P(_)) == \E i \in DOMAIN arr : P(arr[i])

find(arr, P(_)) ==
    IF \E i \in DOMAIN arr : P(arr[i])
    THEN arr[CHOOSE i \in DOMAIN arr : P(arr[i]) /\ \A j \in 1..(i - 1) : ~P(arr[j])]
    ELSE Undefined

map(arr, F(_)) == [i \in DOMAIN arr |-> F(arr[i])]

filter(arr, P(_)) == SelectSeq(arr, P)

(***************************************************************************)
(* Lifecycle engine.                                                       *)
(***************************************************************************)
Statuses == {"CREATED", "APPROVED", "SENT", "SIGNED", "LOCKED", "REVOKED"}

TRANSITIONS_RevertFirst ==
    [CREATED  |-> <<"APPROVED", "REVOKED">>,
     APPROVED |-> <<"CREATED", "SENT", "REVOKED">>,
     SENT     |-> <<"SIGNED", "REVOKED">>,
     SIGNED   |-> <<"LOCKED">>,
     LOCKED   |-> <<>>,
     REVOKED  |-> <<>>]

TRANSITIONS_SignedRevocable ==
    [CREATED  |-> <<"APPROVED", "REVOKED">>,
     APPROVED |-> <<"SENT", "CREATED", "REVOKED">>,
     SENT     |-> <<"SIGNED", "REVOKED">>,
     SIGNED   |-> <<"LOCKED", "REVOKED">>,
     LOCKED   |-> <<>>,
     REVOKED  |-> <<>>]

TRANSITIONS_SkipToLocked ==
    [CREATED  |-> <<"APPROVED", "REVOKED">>,
     APPROVED |-> <<"SENT", "CREATED", "REVOKED">>,
     SENT     |-> <<"SIGNED", "LOCKED", "REVOKED">>,
     SIGNED   |-> <<"LOCKED">>,
     LOCKED   |-> <<>>,
     REVOKED  |-> <<>>]

TRANSITIONS_Reopen ==
    [CREATED  |-> <<"APPROVED", "REVOKED">>,
     APPROVED |-> <<"SENT", "CREATED", "REVOKED">>,
     SENT     |-> <<"SIGNED", "REVOKED">>,
     SIGNED   |-> <<"LOCKED">>,
     LOCKED   |-> <<>>,
     REVOKED  |-> <<"CREATED">>]

TRANSITIONS_LockedRevocable ==
    [CREATED  |-> <<"APPROVED", "REVOKED">>,
     APPROVED |-> <<"SENT", "CREATED", "REVOKED">>,
     SENT     |-> <<"SIGNED", "REVOKED">>,
     SIGNED   |-> <<"LOCKED">>,
     LOCKED   |-> <<"REVOKED">>,
     REVOKED  |-> <<>>]

\* Mutant: an APPROVED contract cannot go back to CREATED.
TRANSITIONS_NoRevert ==
    [CREATED  |-> <<"APPROVED", "REVOKED">>,
     APPROVED |-> <<"SENT", "REVOKED">>,
     SENT     |-> <<"SIGNED", "REVOKED">>,
     SIGNED   |-> <<"LOCKED">>,
     LOCKED   |-> <<>>,
     REVOKED  |-> <<>>]

\* Mutant: a SIGNED contract can go back to SENT.
TRANSITIONS_SignedToSent ==
    [CREATED  |-> <<"APPROVED", "REVOKED">>,
     APPROVED |-> <<"SENT", "CREATED", "REVOKED">>,
     SENT     |-> <<"SIGNED", "REVOKED">>,
     SIGNED   |-> <<"LOCKED", "SENT">>,
     LOCKED   |-> <<>>,
     REVOKED  |-> <<>>]

TRANSITIONS ==
    [CREATED  |-> <<"APPROVED", "REVOKED">>,
     APPROVED |-> <<"SENT", "CREATED", "REVOKED">>,
     SENT     |-> <<"SIGNED", "REVOKED">>,
     SIGNED   |-> <<"LOCKED">>,
     LOCKED   |-> <<>>,
     REVOKED  |-> <<>>]

EDITABLE_STATES_WithSent == <<"CREATED", "SENT">>

EDITABLE_STATES == <<"CREATED">>

\* Mutant: a status may move to itself.
canTransition_AllowsSelf(from, to) == includes(TRANSITIONS[from], to) \/ from = to

canTransition(from, to) == includes(TRANSITIONS[from], to)

getValidTransitions(status) == TRANSITIONS[status]

isEditable(status) == includes(EDITABLE_STATES, status)

isTerminal_LockedOnly(status) == status = "LOCKED"

isTerminal(status) == Len(TRANSITIONS[status]) = 0

(***************************************************************************)
(* Seed blueprints.                                                        *)
(***************************************************************************)
STATUS_TO_FILTER_LockedArchived ==
    [CREATED  |-> "ACTIVE",
     APPROVED |-> "ACTIVE",
     SENT     |-> "PENDING",
     SIGNED   |-> "SIGNED",
     LOCKED   |-> "ARCHIVED",
     REVOKED  |-> "ARCHIVED"]

STATUS_TO_FILTER ==
    [CREATED  |-> "ACTIVE",
     APPROVED |-> "ACTIVE",
     SENT     |-> "PENDING",
     SIGNED   |-> "SIGNED",
     LOCKED   |-> "SIGNED",
     REVOKED  |-> "ARCHIVED"]

DashboardFilters == {"ALL", "ACTIVE", "PENDING", "SIGNED", "ARCHIVED"}

\* Object.keys of TRANSITIONS and of STATUS_TO_FILTER: the keys as written.
StatusKeys == <<"CREATED", "APPROVED", "SENT", "SIGNED", "LOCKED", "REVOKED">>

getFilterForStatus(status) == STATUS_TO_FILTER[status]

\* Mutant: LOCKED is left out of its category.
getStatusesForFilter_DropsLocked(f) ==
    IF f = "ALL" THEN StatusKeys
    ELSE filter(StatusKeys, LAMBDA status :
             STATUS_TO_FILTER[status] = f /\ status # "LOCKED")

getStatusesForFilter(f) ==
    IF f = "ALL" THEN StatusKeys
    ELSE map(filter(map(StatusKeys, LAMBDA status : <<status, STATUS_TO_FILTER[status]>>),
                    LAMBDA entry : entry[2] = f),
             LAMBDA entry : entry[1])

Field(id, label, type, required, editableBy, position) ==
    [id |-> id, type |-> type, label |-> label, position |-> position,
     required |-> required, editableBy |-> editableBy,
     placeholder |-> "undefined", defaultChecked |-> "undefined"]

DEFAULT_BLUEPRINTS == <<
    [id |-> "default-employment-contract",
     name |-> "Employment Contract",
     description |-> "Standard employment agreement defining role, compensation, and terms of engagement.",
     fields |-> <<
        Field("emp-name", "Employee Full Name", "TEXT", "true", "undefined", 0),
        Field("emp-position", "Job Title / Position", "TEXT", "true", "undefined", 1),
        Field("emp-start-date", "Start Date", "DATE", "true", "undefined", 2),
        Field("emp-salary", "Annual Salary", "TEXT", "true", "undefined", 3),
        Field("emp-hours", "Weekly Working Hours", "TEXT", "true", "undefined", 4),
        Field("emp-notice", "Notice Period (Weeks)", "TEXT", "true", "undefined", 5),
        Field("emp-benefits", "Health Insurance Included", "CHECKBOX", "false", "undefined", 6),
        Field("emp-signature", "Employee Signature", "SIGNATURE", "true", "client", 7) >>,
     createdAt |-> 0, updatedAt |-> 0],
    [id |-> "default-nda",
     name |-> "Non-Disclosure Agreement (NDA)",
     description |-> "Strict confidentiality agreement to protect proprietary information and trade secrets.",
     fields |-> <<
        Field("nda-party-name", "Receiving Party Name", "TEXT", "true", "undefined", 0),
        Field("nda-company", "Company / Organization", "TEXT", "false", "undefined", 1),
        Field("nda-effective-date", "Effective Date", "DATE", "true", "undefined", 2),
        Field("nda-duration", "Confidentiality Period (years)", "TEXT", "true", "undefined", 3),
        Field("nda-jurisdiction", "Governing Law / Jurisdiction", "TEXT", "true", "undefined", 4),
        Field("nda-acknowledge", "I acknowledge the terms of this NDA", "CHECKBOX", "true", "client", 5),
        Field("nda-signature", "Signature", "SIGNATURE", "true", "client", 6) >>,
     createdAt |-> 0, updatedAt |-> 0],
    [id |-> "default-freelance",
     name |-> "Freelance Service Agreement",
     description |-> "Comprehensive contract for project-based work, outlining deliverables, payment terms, and IP ownership.",
     fields |-> <<
        Field("free-contractor", "Contractor / Freelancer Name", "TEXT", "true", "undefined", 0),
        Field("free-project", "Project Description", "TEXT", "true", "undefined", 1),
        Field("free-start", "Project Start Date", "DATE", "true", "undefined", 2),
        Field("free-deadline", "Delivery Deadline", "DATE", "true", "undefined", 3),
        Field("free-fee", "Total Project Fee", "TEXT", "true", "undefined", 4),
        Field("free-payment-terms", "Payment Terms (e.g., Net 30, 50% upfront)", "TEXT", "true", "undefined", 5),
        Field("free-ip", "Client Retains IP Rights", "CHECKBOX", "false", "undefined", 6),
        Field("free-signature", "Contractor Signature", "SIGNATURE", "true", "client", 7) >>,
     createdAt |-> 0, updatedAt |-> 0],
    [id |-> "default-rental",
     name |-> "Rental / Lease Agreement",
     description |-> "Detailed property rental agreement covering lease terms, rent, deposits, and tenant obligations.",
     fields |-> <<
        Field("rent-tenant", "Tenant Full Name", "TEXT", "true", "undefined", 0),
        Field("rent-address", "Property Address", "TEXT", "true", "undefined", 1),
        Field("rent-start", "Lease Start Date", "DATE", "true", "undefined", 2),
        Field("rent-end", "Lease End Date", "DATE", "true", "undefined", 3),
        Field("rent-amount", "Monthly Rent Amount", "TEXT", "true", "undefined", 4),
        Field("rent-deposit", "Security Deposit", "TEXT", "true", "undefined", 5),
        Field("rent-late-fee", "Late Payment Fee Policy", "TEXT", "false", "undefined", 6),
        Field("rent-pets", "Pets Allowed", "CHECKBOX", "false", "undefined", 7),
        Field("rent-signature", "Tenant Signature", "SIGNATURE", "true", "client", 8) >> ,
     createdAt |-> 0, updatedAt |-> 0] >>


(***************************************************************************)
(* Inputs of the operations.                                               *)
(***************************************************************************)
\* generateId(): crypto.randomUUID(), a new id at every call.
generateId(kind, n) == kind \o "-" \o ToString(n + 1)

\* Every id a contract can have in a run: one that is not yet created, or is
\* deleted, is the id of no contract.
ContractIdInputs ==
    {generateId("contract", n) : n \in 0..(MaxContracts - 1)}

BlueprintIdInputs ==
    {"default-nda", "no-such-blueprint"}
        \cup {generateId("blueprint", n) : n \in 0..(MaxUserBlueprints - 1)}

ContractNames == {"Acme NDA"}

\* What the blueprint form submits to addBlueprint.
BlueprintInputs ==
    { [name |-> "NDA", description |-> "",
       fields |-> <<
          Field("f-text", "Party", "TEXT", "true", "manager", 0),
          Field("f-signature", "Signature", "SIGNATURE", "true", "client", 1) >>],
      [name |-> "Checklist", description |-> "",
       fields |-> <<
          [Field("f-checked", "Agreed", "CHECKBOX", "false", "both", 0)
              EXCEPT !.defaultChecked = "true"],
          Field("f-unchecked", "Opt in", "CHECKBOX", "false", "undefined", 1) >>],
      [name |-> "Blank", description |-> "", fields |-> <<>>] }

\* The field edits the contract view submits: a field id and its new value.
EditInputs == { <<"nda-party-name", "Acme Corp">> }

\* Array.findIndex: the 0-based index of the first match, or -1.
findIndex(arr, P(_)) ==
    IF \E i \in DOMAIN arr : P(arr[i])
    THEN (CHOOSE i \in DOMAIN arr : P(arr[i]) /\ \A j \in 1..(i - 1) : ~P(arr[j])) - 1
    ELSE -1

\* { ...obj, ...updates }
spread(obj, updates) ==
    [k \in DOMAIN obj \cup DOMAIN updates |->
        IF k \in DOMAIN updates THEN updates[k] ELSE obj[k]]

\* The arguments of the catalog's edit operations: the blueprint and the field
\* an edit names, the field the field form adds, the changes it makes.
CatalogIdInputs == {"default-nda", "no-such-blueprint"}

FieldIdInputs == {"nda-party-name", "no-such-field"}

FieldDataInputs ==
    { [label |-> "Witness", type |-> "TEXT", required |-> "false",
       editableBy |-> "manager", placeholder |-> "undefined",
       defaultChecked |-> "undefined"] }

FieldUpdateInputs == { [label |-> "Disclosing Party"] }

BlueprintUpdateInputs == { [name |-> "Mutual NDA"] }

Directions == {"up", "down"}

(***************************************************************************)
(* Blueprint store.                                                        *)
(***************************************************************************)
getBlueprint(id) == find(blueprints, LAMBDA bp : bp.id = id)

addBlueprint(input) ==
    LET blueprint == [id |-> generateId("blueprint", nextId.blueprint),
                      name |-> input.name,
                      description |-> input.description,
                      fields |-> input.fields,
                      createdAt |-> now, updatedAt |-> now]
    IN /\ nextId.blueprint < MaxUserBlueprints
       /\ nextId' = [nextId EXCEPT !.blueprint = @ + 1]
       /\ blueprints' = Append(blueprints, blueprint)
       /\ result' = [op |-> "addBlueprint", ret |-> blueprint]
       /\ UNCHANGED <<contracts, now>>

\* Array.map with the (0-based) index: arr.map((f, index) => ...)
mapIndexed(arr, F(_, _)) == [i \in DOMAIN arr |-> F(arr[i], i - 1)]

\* The catalog after set(...) in updateBlueprint: the blueprint with that id
\* takes the updates and the clock's reading.
\* Mutant: the blueprint keeps the updatedAt it had.
updatedBlueprints_NoStamp(id, updates) ==
    map(blueprints, LAMBDA bp :
        IF bp.id = id
        THEN [spread(bp, updates) EXCEPT !.updatedAt = bp.updatedAt]
        ELSE bp)

updatedBlueprints(id, updates) ==
    map(blueprints, LAMBDA bp :
        IF bp.id = id
        THEN [spread(bp, updates) EXCEPT !.updatedAt = now']
        ELSE bp)

updateBlueprint(id, updates) ==
    LET updated == find(updatedBlueprints(id, updates), LAMBDA bp : bp.id = id)
    IN /\ blueprints' = updatedBlueprints(id, updates)
       /\ result' = [op |-> "updateBlueprint", ret |-> updated]
       /\ UNCHANGED <<contracts, nextId>>

\* Mutant: the contracts created from the blueprint are deleted with it.
deleteBlueprint_Cascade(id) ==
    LET exists == some(blueprints, LAMBDA bp : bp.id = id) IN
    /\ blueprints' = IF exists THEN filter(blueprints, LAMBDA bp : bp.id # id)
                                ELSE blueprints
    /\ contracts' = filter(contracts, LAMBDA c : c.blueprintId # id)
    /\ result' = [op |-> "deleteBlueprint", ret |-> exists]
    /\ UNCHANGED nextId

deleteBlueprint(id) ==
    LET exists == some(blueprints, LAMBDA bp : bp.id = id) IN
    /\ blueprints' = IF exists THEN filter(blueprints, LAMBDA bp : bp.id # id)
                                ELSE blueprints
    /\ result' = [op |-> "deleteBlueprint", ret |-> exists]
    /\ UNCHANGED <<contracts, nextId>>

addField(blueprintId, fieldData) ==
    LET blueprint == getBlueprint(blueprintId) IN
    IF blueprint = Undefined
    THEN /\ result' = [op |-> "addField", ret |-> Undefined]
         /\ UNCHANGED <<blueprints, contracts, nextId>>
    ELSE LET field == spread(fieldData,
                          [id |-> generateId("field", nextId.field),
                           position |-> Len(blueprint.fields)])
             updates == [fields |-> Append(blueprint.fields, field)]
         IN /\ nextId' = [nextId EXCEPT !.field = @ + 1]
            /\ blueprints' = updatedBlueprints(blueprintId, updates)
            /\ result' = [op |-> "addField", ret |-> field]
            /\ UNCHANGED contracts

updateField(blueprintId, fieldId, updates) ==
    LET blueprint == getBlueprint(blueprintId) IN
    IF blueprint = Undefined
    THEN /\ result' = [op |-> "updateField", ret |-> FALSE]
         /\ UNCHANGED <<blueprints, contracts, nextId>>
    ELSE IF ~some(blueprint.fields, LAMBDA f : f.id = fieldId)
    THEN /\ result' = [op |-> "updateField", ret |-> FALSE]
         /\ UNCHANGED <<blueprints, contracts, nextId>>
    ELSE LET newFields == map(blueprint.fields, LAMBDA f :
                              IF f.id = fieldId THEN spread(f, updates) ELSE f)
         IN /\ blueprints' = updatedBlueprints(blueprintId, [fields |-> newFields])
            /\ result' = [op |-> "updateField", ret |-> TRUE]
            /\ UNCHANGED <<contracts, nextId>>

\* Mutant: the fields that remain keep the positions they had.
deleteField_KeepsPositions(blueprintId, fieldId) ==
    LET blueprint == getBlueprint(blueprintId) IN
    IF blueprint = Undefined
    THEN /\ result' = [op |-> "deleteField", ret |-> FALSE]
         /\ UNCHANGED <<blueprints, contracts, nextId>>
    ELSE LET newFields == filter(blueprint.fields, LAMBDA f : f.id # fieldId)
         IN /\ blueprints' = updatedBlueprints(blueprintId, [fields |-> newFields])
            /\ result' = [op |-> "deleteField", ret |-> TRUE]
            /\ UNCHANGED <<contracts, nextId>>

\* Mutant: the field is also taken out of the contracts created from the blueprint.
deleteField_Propagates(blueprintId, fieldId) ==
    LET blueprint == getBlueprint(blueprintId) IN
    IF blueprint = Undefined
    THEN /\ result' = [op |-> "deleteField", ret |-> FALSE]
         /\ UNCHANGED <<blueprints, contracts, nextId>>
    ELSE LET newFields == mapIndexed(
                 filter(blueprint.fields, LAMBDA f : f.id # fieldId),
                 LAMBDA f, index : [f EXCEPT !.position = index])
         IN /\ blueprints' = updatedBlueprints(blueprintId, [fields |-> newFields])
            /\ contracts' = map(contracts, LAMBDA c :
                   IF c.blueprintId = blueprintId
                   THEN [c EXCEPT !.fields = filter(c.fields, LAMBDA f : f.id # fieldId)]
                   ELSE c)
            /\ result' = [op |-> "deleteField", ret |-> TRUE]
            /\ UNCHANGED nextId

deleteField(blueprintId, fieldId) ==
    LET blueprint == getBlueprint(blueprintId) IN
    IF blueprint = Undefined
    THEN /\ result' = [op |-> "deleteField", ret |-> FALSE]
         /\ UNCHANGED <<blueprints, contracts, nextId>>
    ELSE LET newFields == mapIndexed(
                 filter(blueprint.fields, LAMBDA f : f.id # fieldId),
                 LAMBDA f, index : [f EXCEPT !.position = index])
         IN /\ blueprints' = updatedBlueprints(blueprintId, [fields |-> newFields])
            /\ result' = [op |-> "deleteField", ret |-> TRUE]
            /\ UNCHANGED <<contracts, nextId>>

\* Mutant: the two fields change places and keep the positions they had.
reorderFields_KeepsPositions(blueprintId, fieldId, direction) ==
    LET blueprint == getBlueprint(blueprintId) IN
    IF blueprint = Undefined
    THEN /\ result' = [op |-> "reorderFields", ret |-> FALSE]
         /\ UNCHANGED <<blueprints, contracts, nextId>>
    ELSE LET fieldIndex == findIndex(blueprint.fields, LAMBDA f : f.id = fieldId)
             newIndex == IF direction = "up" THEN fieldIndex - 1 ELSE fieldIndex + 1
         IN IF fieldIndex = -1 \/ newIndex < 0 \/ newIndex >= Len(blueprint.fields)
            THEN /\ result' = [op |-> "reorderFields", ret |-> FALSE]
                 /\ UNCHANGED <<blueprints, contracts, nextId>>
            ELSE LET newFields == [i \in DOMAIN blueprint.fields |->
                         IF i = fieldIndex + 1 THEN blueprint.fields[newIndex + 1]
                         ELSE IF i = newIndex + 1 THEN blueprint.fields[fieldIndex + 1]
                         ELSE blueprint.fields[i]]
                 IN /\ blueprints' = updatedBlueprints(blueprintId, [fields |-> newFields])
                    /\ result' = [op |-> "reorderFields", ret |-> TRUE]
                    /\ UNCHANGED <<contracts, nextId>>

reorderFields(blueprintId, fieldId, direction) ==
    LET blueprint == getBlueprint(blueprintId) IN
    IF blueprint = Undefined
    THEN /\ result' = [op |-> "reorderFields", ret |-> FALSE]
         /\ UNCHANGED <<blueprints, contracts, nextId>>
    ELSE LET fieldIndex == findIndex(blueprint.fields, LAMBDA f : f.id = fieldId)
             newIndex == IF direction = "up" THEN fieldIndex - 1 ELSE fieldIndex + 1
         IN IF fieldIndex = -1 \/ newIndex < 0 \/ newIndex >= Len(blueprint.fields)
            THEN /\ result' = [op |-> "reorderFields", ret |-> FALSE]
                 /\ UNCHANGED <<blueprints, contracts, nextId>>
            ELSE LET newFields == [i \in DOMAIN blueprint.fields |->
                         IF i = fieldIndex + 1 THEN blueprint.fields[newIndex + 1]
                         ELSE IF i = newIndex + 1 THEN blueprint.fields[fieldIndex + 1]
                         ELSE blueprint.fields[i]]
                     reorderedFields == mapIndexed(newFields,
                         LAMBDA f, index : [f EXCEPT !.position = index])
                 IN /\ blueprints' = updatedBlueprints(blueprintId, [fields |-> reorderedFields])
                    /\ result' = [op |-> "reorderFields", ret |-> TRUE]
                    /\ UNCHANGED <<contracts, nextId>>

(***************************************************************************)
(* Contract store.                                                         *)
(***************************************************************************)
getContract(id) == find(contracts, LAMBDA c : c.id = id)

defaultValue_IgnoreDefaultChecked(f) ==
    IF f.type = "CHECKBOX" THEN "false" ELSE "null"

\* f.type === 'CHECKBOX' ? (f.defaultChecked ?? false) : null
defaultValue(f) ==
    IF f.type = "CHECKBOX"
    THEN (IF f.defaultChecked \in {"undefined", "null"} THEN "false" ELSE f.defaultChecked)
    ELSE "null"

contractField(f) ==
    [id |-> f.id, type |-> f.type, label |-> f.label, position |-> f.position,
     required |-> f.required, editableBy |-> f.editableBy,
     placeholder |-> f.placeholder, value |-> defaultValue(f)]

\* Mutant: a missing blueprint is not checked for; the contract is created empty.
createContract_NoBlueprintCheck(input) ==
    LET blueprint == getBlueprint(input.blueprintId)
        contract == [id |-> generateId("contract", nextId.contract),
                     name |-> input.name,
                     blueprintId |-> input.blueprintId,
                     blueprintName |-> IF blueprint = Undefined THEN "undefined"
                                       ELSE blueprint.name,
                     status |-> "CREATED",
                     fields |-> IF blueprint = Undefined THEN <<>>
                                ELSE map(blueprint.fields, contractField),
                     createdAt |-> now, updatedAt |-> now]
    IN /\ nextId.contract < MaxContracts
       /\ nextId' = [nextId EXCEPT !.contract = @ + 1]
       /\ contracts' = Append(contracts, contract)
       /\ result' = [op |-> "createContract", ret |-> contract]
       /\ UNCHANGED <<blueprints, now>>

createContract(input) ==
    LET blueprint == getBlueprint(input.blueprintId) IN
    IF blueprint = Undefined
    THEN /\ result' = [op |-> "createContract", ret |-> Undefined]
         /\ UNCHANGED <<blueprints, contracts, nextId, now>>
    ELSE LET contract == [id |-> generateId("contract", nextId.contract),
                          name |-> input.name,
                          blueprintId |-> blueprint.id,
                          blueprintName |-> blueprint.name,
                          status |-> "CREATED",
                          fields |-> map(blueprint.fields, contractField),
                          createdAt |-> now, updatedAt |-> now]
         IN /\ nextId.contract < MaxContracts
            /\ nextId' = [nextId EXCEPT !.contract = @ + 1]
            /\ contracts' = Append(contracts, contract)
            /\ result' = [op |-> "createContract", ret |-> contract]
            /\ UNCHANGED <<blueprints, now>>

\* Mutant: the edit also puts the contract back in CREATED.
updateContractFields_ResetsStatus(id, fields) ==
    LET contract == getContract(id) IN
    IF contract = Undefined \/ contract.status \notin {"CREATED", "SENT"}
    THEN /\ result' = [op |-> "updateContractFields", ret |-> FALSE]
         /\ UNCHANGED <<blueprints, contracts, nextId, now>>
    ELSE /\ contracts' = map(contracts, LAMBDA c :
                IF c.id = id
                THEN [c EXCEPT !.fields = fields, !.status = "CREATED", !.updatedAt = now]
                ELSE c)
         /\ result' = [op |-> "updateContractFields", ret |-> TRUE]
         /\ UNCHANGED <<blueprints, nextId, now>>

\* Mutant: only isEditable(status) lets an edit through.
updateContractFields_CreatedOnly(id, fields) ==
    LET contract == getContract(id) IN
    IF contract = Undefined \/ ~isEditable(contract.status)
    THEN /\ result' = [op |-> "updateContractFields", ret |-> FALSE]
         /\ UNCHANGED <<blueprints, contracts, nextId, now>>
    ELSE /\ contracts' = map(contracts, LAMBDA c :
                IF c.id = id
                THEN [c EXCEPT !.fields = fields, !.updatedAt = now]
                ELSE c)
         /\ result' = [op |-> "updateContractFields", ret |-> TRUE]
         /\ UNCHANGED <<blueprints, nextId, now>>

\* Mutant: the status check is missing.
updateContractFields_NoStatusCheck(id, fields) ==
    LET contract == getContract(id) IN
    IF contract = Undefined
    THEN /\ result' = [op |-> "updateContractFields", ret |-> FALSE]
         /\ UNCHANGED <<blueprints, contracts, nextId, now>>
    ELSE /\ contracts' = map(contracts, LAMBDA c :
                IF c.id = id
                THEN [c EXCEPT !.fields = fields, !.updatedAt = now]
                ELSE c)
         /\ result' = [op |-> "updateContractFields", ret |-> TRUE]
         /\ UNCHANGED <<blueprints, nextId, now>>

\* Mutant: in SENT a list is taken only if it leaves every field other than
\* a SIGNATURE field as it is.
updateContractFields_SentSignatureOnly(id, fields) ==
    LET contract == getContract(id) IN
    IF contract = Undefined
    THEN /\ result' = [op |-> "updateContractFields", ret |-> FALSE]
         /\ UNCHANGED <<blueprints, contracts, nextId, now>>
    ELSE LET isCreated == contract.status = "CREATED"
             signatureOnly ==
                 /\ contract.status = "SENT"
                 /\ Len(fields) = Len(contract.fields)
                 /\ \A k \in DOMAIN fields :
                       fields[k].type # "SIGNATURE" => fields[k] = contract.fields[k]
         IN IF ~isCreated /\ ~signatureOnly
            THEN /\ result' = [op |-> "updateContractFields", ret |-> FALSE]
                 /\ UNCHANGED <<blueprints, contracts, nextId, now>>
            ELSE /\ contracts' = map(contracts, LAMBDA c :
                        IF c.id = id
                        THEN [c EXCEPT !.fields = fields, !.updatedAt = now]
                        ELSE c)
                 /\ result' = [op |-> "updateContractFields", ret |-> TRUE]
                 /\ UNCHANGED <<blueprints, nextId, now>>

updateContractFields(id, fields) ==
    LET contract == getContract(id) IN
    IF contract = Undefined
    THEN /\ result' = [op |-> "updateContractFields", ret |-> FALSE]
         /\ UNCHANGED <<blueprints, contracts, nextId, now>>
    ELSE LET isCreated == contract.status = "CREATED"
             isSentSignature == contract.status = "SENT"
         IN IF ~isCreated /\ ~isSentSignature
            THEN /\ result' = [op |-> "updateContractFields", ret |-> FALSE]
                 /\ UNCHANGED <<blueprints, contracts, nextId, now>>
            ELSE /\ contracts' = map(contracts, LAMBDA c :
                        IF c.id = id
                        THEN [c EXCEPT !.fields = fields, !.updatedAt = now]
                        ELSE c)
                 /\ result' = [op |-> "updateContractFields", ret |-> TRUE]
                 /\ UNCHANGED <<blueprints, nextId, now>>

\* Mutant: the canTransition check is missing.
transitionStatus_NoValidation(id, newStatus) ==
    LET contract == getContract(id) IN
    IF contract = Undefined
    THEN /\ result' = [op |-> "transitionStatus", ret |-> FALSE]
         /\ UNCHANGED <<blueprints, contracts, nextId, now>>
    ELSE /\ contracts' = map(contracts, LAMBDA c :
                IF c.id = id
                THEN [c EXCEPT !.status = newStatus, !.updatedAt = now]
                ELSE c)
         /\ result' = [op |-> "transitionStatus", ret |-> TRUE]
         /\ UNCHANGED <<blueprints, nextId, now>>

transitionStatus(id, newStatus) ==
    LET contract == getContract(id) IN
    IF contract = Undefined
    THEN /\ result' = [op |-> "transitionStatus", ret |-> FALSE]
         /\ UNCHANGED <<blueprints, contracts, nextId, now>>
    ELSE IF ~canTransition(contract.status, newStatus)
         THEN /\ result' = [op |-> "transitionStatus", ret |-> FALSE]
              /\ UNCHANGED <<blueprints, contracts, nextId, now>>
         ELSE /\ contracts' = map(contracts, LAMBDA c :
                     IF c.id = id
                     THEN [c EXCEPT !.status = newStatus, !.updatedAt = now]
                     ELSE c)
              /\ result' = [op |-> "transitionStatus", ret |-> TRUE]
              /\ UNCHANGED <<blueprints, nextId, now>>

\* Mutant: a LOCKED contract is not deleted.
deleteContract_KeepsLocked(id) ==
    LET exists == some(contracts, LAMBDA c : c.id = id /\ c.status # "LOCKED") IN
    /\ contracts' = IF exists THEN filter(contracts, LAMBDA c : c.id # id)
                              ELSE contracts
    /\ result' = [op |-> "deleteContract", ret |-> exists]
    /\ UNCHANGED <<blueprints, nextId, now>>

deleteContract(id) ==
    LET exists == some(contracts, LAMBDA c : c.id = id) IN
    /\ contracts' = IF exists THEN filter(contracts, LAMBDA c : c.id # id)
                              ELSE contracts
    /\ result' = [op |-> "deleteContract", ret |-> exists]
    /\ UNCHANGED <<blueprints, nextId, now>>

(***************************************************************************)
(* Contract view.                                                          *)
(***************************************************************************)
handleFieldChange(contract, fieldId, value) ==
    map(contract.fields, LAMBDA f :
        IF f.id = fieldId THEN [f EXCEPT !.value = value] ELSE f)

\* The field lists handed to updateContractFields(id, ...).
FieldsInputs(id) ==
    IF getContract(id) = Undefined
    THEN {<<>>}
    ELSE {handleFieldChange(getContract(id), e[1], e[2]) : e \in EditInputs}

(***************************************************************************)
(* Reading a contract collection, before or after a step.                  *)
(***************************************************************************)
contractIn(collection, id) == find(collection, LAMBDA c : c.id = id)

present(collection, id) == contractIn(collection, id) # Undefined

(***************************************************************************)
(* The steps of the stores, each with its inputs.                          *)
(***************************************************************************)
AddBlueprintStep == \E input \in BlueprintInputs : addBlueprint(input)

CreateContractStep ==
    \E name \in ContractNames, blueprintId \in BlueprintIdInputs :
        createContract([name |-> name, blueprintId |-> blueprintId])

UpdateContractFieldsStep ==
    \E id \in ContractIdInputs : \E fields \in FieldsInputs(id) :
        updateContractFields(id, fields)

TransitionStatusStep ==
    \E id \in ContractIdInputs, newStatus \in Statuses :
        transitionStatus(id, newStatus)

DeleteContractStep == \E id \in ContractIdInputs : deleteContract(id)

(***************************************************************************)
(* debounce (helpers.ts).  The closure keeps timeoutId; the runtime keeps  *)
(* the timers that setTimeout armed and that have neither run nor been     *)
(* cleared.  Timer handles are positive, so 0 stands for the undefined     *)
(* timeoutId of a closure that was never called.  calls and invoked are    *)
(* observers: the calls of the debounced function and the invocations of   *)
(* fn, each with the clock reading at which it happened.                   *)
(***************************************************************************)
NotCalled == [timeoutId |-> 0, timers |-> {}, calls |-> <<>>, invoked |-> <<>>]

clearTimeout_Ignored(timers, timeoutId) == timers

clearTimeout(timers, timeoutId) == {t \in timers : t.id # timeoutId}

setTimeout(timers, id, args, ms) ==
    timers \cup {[id |-> id, at |-> now + ms, args |-> args]}

\* the function debounce returns, called with args
debouncedCall(args) ==
    LET id == Len(debounced.calls) + 1
    IN debounced' =
          [debounced EXCEPT
              !.timers = setTimeout(clearTimeout(@, debounced.timeoutId),
                                    id, args, DebounceMs),
              !.timeoutId = id,
              !.calls = Append(@, [at |-> now, args |-> args])]

\* the callback of timer t: () => fn(...args)
timerCallback(t) ==
    debounced' =
       [debounced EXCEPT
           !.timers = @ \ {t},
           !.invoked = Append(@, [at |-> now, args |-> t.args, call |-> t.id])]

(***************************************************************************)
(* Spec: the contract repository over the seed catalog.                    *)
(***************************************************************************)
Init ==
    /\ blueprints = DEFAULT_BLUEPRINTS
    /\ contracts = <<>>
    /\ nextId = [contract |-> 0, blueprint |-> 0, field |-> 0]
    /\ now = 0
    /\ result = [op |-> "none", ret |-> Undefined]
    /\ query = [fn |-> "none", status |-> "CREATED", to |-> "CREATED",
                filter |-> "ALL", ret |-> "none"]
    /\ history = [id \in ContractIdInputs |-> <<>>]
    /\ debounced = NotCalled

CreateContract == CreateContractStep /\ UNCHANGED <<query, history, debounced>>

UpdateContractFields == UpdateContractFieldsStep /\ UNCHANGED <<query, history, debounced>>

TransitionStatus == TransitionStatusStep /\ UNCHANGED <<query, history, debounced>>

DeleteContract == DeleteContractStep /\ UNCHANGED <<query, history, debounced>>

Next ==
    \/ CreateContract
    \/ UpdateContractFields
    \/ TransitionStatus
    \/ DeleteContract

Spec == Init /\ [][Next]_vars

(***************************************************************************)
(* SpecHistory: the operations that create, move and delete contracts, with *)
(* an observer that writes down, per contract, the statuses it goes        *)
(* through (the last HistoryWindow of them).  updateContractFields writes  *)
(* no status (C3) and is left to Spec.                                     *)
(***************************************************************************)
pushHistory(h, status) ==
    LET all == Append(h, status)
    IN IF Len(all) > HistoryWindow THEN Tail(all) ELSE all

Observed ==
    history' = [id \in ContractIdInputs |->
        IF ~present(contracts', id) THEN <<>>
        ELSE IF ~present(contracts, id) THEN <<contractIn(contracts', id).status>>
        ELSE IF contractIn(contracts', id).status # contractIn(contracts, id).status
             THEN pushHistory(history[id], contractIn(contracts', id).status)
             ELSE history[id]]

CreateContractObserved == CreateContractStep /\ Observed /\ UNCHANGED <<query, debounced>>

TransitionStatusObserved == TransitionStatusStep /\ Observed /\ UNCHANGED <<query, debounced>>

DeleteContractObserved == DeleteContractStep /\ Observed /\ UNCHANGED <<query, debounced>>

NextHistory ==
    \/ CreateContractObserved
    \/ TransitionStatusObserved
    \/ DeleteContractObserved

SpecHistory == Init /\ [][NextHistory]_vars

(***************************************************************************)
(* SpecTemplates: blueprints are added to the catalog and contracts are    *)
(* created from the catalog's blueprints, and deleted.                     *)
(***************************************************************************)
AddBlueprint == AddBlueprintStep /\ UNCHANGED <<query, history, debounced>>

NextTemplates ==
    \/ AddBlueprint
    \/ CreateContract
    \/ DeleteContract

SpecTemplates == Init /\ [][NextTemplates]_vars

(***************************************************************************)
(* SpecCatalog: contracts are created while the catalog is edited.  Every  *)
(* edit of the catalog is made at a later reading of the clock.            *)
(***************************************************************************)
Later == now < MaxTime /\ now' = now + 1

UpdateBlueprint ==
    /\ Later
    /\ \E id \in CatalogIdInputs, updates \in BlueprintUpdateInputs :
          updateBlueprint(id, updates)
    /\ UNCHANGED <<query, history, debounced>>

DeleteBlueprint ==
    /\ Later
    /\ \E id \in CatalogIdInputs : deleteBlueprint(id)
    /\ UNCHANGED <<query, history, debounced>>

AddField ==
    /\ Later
    /\ \E blueprintId \in CatalogIdInputs, fieldData \in FieldDataInputs :
          addField(blueprintId, fieldData)
    /\ UNCHANGED <<query, history, debounced>>

UpdateField ==
    /\ Later
    /\ \E blueprintId \in CatalogIdInputs, fieldId \in FieldIdInputs,
          updates \in FieldUpdateInputs :
          updateField(blueprintId, fieldId, updates)
    /\ UNCHANGED <<query, history, debounced>>

DeleteField ==
    /\ Later
    /\ \E blueprintId \in CatalogIdInputs, fieldId \in FieldIdInputs :
          deleteField(blueprintId, fieldId)
    /\ UNCHANGED <<query, history, debounced>>

ReorderFields ==
    /\ Later
    /\ \E blueprintId \in CatalogIdInputs, fieldId \in FieldIdInputs,
          direction \in Directions :
          reorderFields(blueprintId, fieldId, direction)
    /\ UNCHANGED <<query, history, debounced>>

NextCatalog ==
    \/ CreateContract
    \/ UpdateBlueprint
    \/ DeleteBlueprint
    \/ AddField
    \/ UpdateField
    \/ DeleteField
    \/ ReorderFields

SpecCatalog == Init /\ [][NextCatalog]_vars

(***************************************************************************)
(* SpecReplace: updateContractFields as the store declares it, called with *)
(* any field list: the lists of the contract view, the empty list, and the *)
(* contract's list with other labels.                                      *)
(***************************************************************************)
reverse(arr) == [i \in DOMAIN arr |-> arr[Len(arr) + 1 - i]]

FieldListInputs(id) ==
    FieldsInputs(id) \cup {<<>>}
        \cup (IF getContract(id) = Undefined THEN {}
              ELSE {map(getContract(id).fields,
                        LAMBDA f : [f EXCEPT !.label = "Renamed"]),
                    reverse(getContract(id).fields)})

ReplaceFields ==
    /\ \E id \in ContractIdInputs : \E fields \in FieldListInputs(id) :
          updateContractFields(id, fields)
    /\ UNCHANGED <<query, history, debounced>>

NextReplace ==
    \/ CreateContract
    \/ ReplaceFields
    \/ DeleteContract

SpecReplace == Init /\ [][NextReplace]_vars

(***************************************************************************)
(* SpecScenario: the "NDA" blueprint of the blueprint form, a required     *)
(* TEXT field and a client's SIGNATURE field, is added to the catalog;     *)
(* contracts are created from it, moved through the lifecycle, and signed. *)
(***************************************************************************)
ScenarioBlueprint == CHOOSE input \in BlueprintInputs : input.name = "NDA"

ScenarioBlueprintId == generateId("blueprint", 0)

modalSignature == "data:image/png;base64,AAAA"

\* handleSignContract: the list with the SIGNATURE field's value set to the
\* signature drawn, if there is such a field.
signedFields(contract) ==
    LET signatureField == find(contract.fields, LAMBDA f : f.type = "SIGNATURE")
    IN IF signatureField = Undefined THEN contract.fields
       ELSE map(contract.fields, LAMBDA f :
                IF f.id = signatureField.id THEN [f EXCEPT !.value = modalSignature]
                ELSE f)

ScenarioAddBlueprint ==
    /\ addBlueprint(ScenarioBlueprint)
    /\ UNCHANGED <<query, history, debounced>>

ScenarioCreateContract ==
    /\ \E name \in ContractNames :
          createContract([name |-> name, blueprintId |-> ScenarioBlueprintId])
    /\ UNCHANGED <<query, history, debounced>>

ScenarioSign ==
    /\ \E id \in ContractIdInputs :
          /\ present(contracts, id)
          /\ updateContractFields(id, signedFields(getContract(id)))
    /\ UNCHANGED <<query, history, debounced>>

NextScenario ==
    \/ ScenarioAddBlueprint
    \/ ScenarioCreateContract
    \/ ScenarioSign
    \/ TransitionStatus

SpecScenario == Init /\ [][NextScenario]_vars

(***************************************************************************)
(* SpecReload: the catalog is edited and the page is reloaded: the         *)
(* blueprint store is rebuilt from what the storage holds, which is the    *)
(* store's state as last written, a stale state, an empty one, or nothing. *)
(***************************************************************************)
\* Mutant: the persisted list replaces the seeds.
merge_PersistedWins(persistedState) ==
    IF persistedState = Undefined THEN DEFAULT_BLUEPRINTS
    ELSE persistedState.blueprints

\* Mutant: a seed is put back only if the storage has no blueprint of its id.
merge_KeepsPersistedSeeds(persistedState) ==
    LET defaultIds == {DEFAULT_BLUEPRINTS[i].id : i \in DOMAIN DEFAULT_BLUEPRINTS}
        persistedBlueprints == IF persistedState = Undefined THEN <<>>
                               ELSE persistedState.blueprints
        userBlueprints == filter(persistedBlueprints, LAMBDA b : b.id \notin defaultIds)
        seeds == [i \in DOMAIN DEFAULT_BLUEPRINTS |->
                     LET kept == find(persistedBlueprints,
                                      LAMBDA b : b.id = DEFAULT_BLUEPRINTS[i].id)
                     IN IF kept = Undefined THEN DEFAULT_BLUEPRINTS[i] ELSE kept]
    IN seeds \o userBlueprints

\* persist's merge option: the blueprints of the rebuilt store.
merge(persistedState) ==
    LET defaultIds == {DEFAULT_BLUEPRINTS[i].id : i \in DOMAIN DEFAULT_BLUEPRINTS}
        persistedBlueprints == IF persistedState = Undefined THEN <<>>
                               ELSE persistedState.blueprints
        userBlueprints == filter(persistedBlueprints, LAMBDA b : b.id \notin defaultIds)
    IN DEFAULT_BLUEPRINTS \o userBlueprints

\* A blueprint as an earlier session left it in the storage.
PersistedBlueprint(id, name, fields) ==
    [id |-> id, name |-> name, description |-> "", fields |-> fields,
     createdAt |-> 0, updatedAt |-> 0]

\* What the storage may hold besides the store's last state: nothing, an
\* empty list, and a list of an earlier session: two blueprints of the user
\* around a seed that was renamed and emptied.
PersistedInputs ==
    { Undefined,
      [blueprints |-> <<>>],
      [blueprints |->
          << PersistedBlueprint("persisted-b", "Lease", <<>>),
             PersistedBlueprint("default-nda", "My NDA", <<>>),
             PersistedBlueprint("persisted-a", "Offer",
                 << Field("offer-name", "Name", "TEXT", "true", "manager", 0) >>) >>] }

Hydrate ==
    /\ \E persistedState \in PersistedInputs \cup {[blueprints |-> blueprints]} :
          /\ blueprints' = merge(persistedState)
          /\ result' = [op |-> "hydrate", ret |-> persistedState]
    /\ UNCHANGED <<contracts, nextId, now, query, history, debounced>>

NextReload ==
    \/ AddBlueprint
    \/ DeleteBlueprint
    \/ Hydrate

SpecReload == Init /\ [][NextReload]_vars

(***************************************************************************)
(* Strings: String.prototype.toLowerCase, trim and includes.               *)
(***************************************************************************)
LowerCase ==
    [A |-> "a", B |-> "b", C |-> "c", D |-> "d", E |-> "e", F |-> "f", G |-> "g",
     H |-> "h", I |-> "i", J |-> "j", K |-> "k", L |-> "l", M |-> "m", N |-> "n",
     O |-> "o", P |-> "p", Q |-> "q", R |-> "r", S |-> "s", T |-> "t", U |-> "u",
     V |-> "v", W |-> "w", X |-> "x", Y |-> "y", Z |-> "z"]

RECURSIVE toLowerCase(_)
toLowerCase(str) ==
    IF Len(str) = 0 THEN ""
    ELSE LET c == SubSeq(str, 1, 1)
         IN (IF c \in DOMAIN LowerCase THEN LowerCase[c] ELSE c)
               \o toLowerCase(SubSeq(str, 2, Len(str)))

RECURSIVE trim(_)
trim(str) ==
    IF Len(str) = 0 THEN ""
    ELSE IF SubSeq(str, 1, 1) = " " THEN trim(SubSeq(str, 2, Len(str)))
    ELSE IF SubSeq(str, Len(str), Len(str)) = " "
         THEN trim(SubSeq(str, 1, Len(str) - 1))
    ELSE str

stringIncludes(str, searchString) ==
    \/ Len(searchString) = 0
    \/ \E i \in 1..(Len(str) - Len(searchString) + 1) :
          SubSeq(str, i, i + Len(searchString) - 1) = searchString

(***************************************************************************)
(* Dashboard.                                                              *)
(***************************************************************************)
\* Mutant: oldest first.
sortByCreatedAt_Ascending(arr) ==
    LET place(i) == 1 + Cardinality({j \in DOMAIN arr :
                        \/ arr[j].createdAt < arr[i].createdAt
                        \/ arr[j].createdAt = arr[i].createdAt /\ j < i})
    IN [k \in DOMAIN arr |-> arr[CHOOSE i \in DOMAIN arr : place(i) = k]]

\* [...result].sort((a, b) => b.createdAt - a.createdAt): most recent first,
\* contracts of the same instant in the order they had.
sortByCreatedAt(arr) ==
    LET place(i) == 1 + Cardinality({j \in DOMAIN arr :
                        \/ arr[j].createdAt > arr[i].createdAt
                        \/ arr[j].createdAt = arr[i].createdAt /\ j < i})
    IN [k \in DOMAIN arr |-> arr[CHOOSE i \in DOMAIN arr : place(i) = k]]

\* Mutant: the search looks at the contract's name only.
matchesSearch_NameOnly(c, searchQuery) ==
    stringIncludes(toLowerCase(c.name), toLowerCase(searchQuery))

matchesSearch(c, searchQuery) ==
    \/ stringIncludes(toLowerCase(c.name), toLowerCase(searchQuery))
    \/ stringIncludes(toLowerCase(c.blueprintName), toLowerCase(searchQuery))

filteredContracts(activeFilter, searchQuery) ==
    LET byStatus == IF activeFilter # "ALL"
                    THEN filter(contracts, LAMBDA c :
                             includes(getStatusesForFilter(activeFilter), c.status))
                    ELSE contracts
        bySearch == IF trim(searchQuery) # ""
                    THEN filter(byStatus, LAMBDA c : matchesSearch(c, searchQuery))
                    ELSE byStatus
    IN sortByCreatedAt(bySearch)

\* Mutant: LOCKED contracts are counted as archived.
countedAs_LockedArchived(status) ==
    IF includes(<<"CREATED", "APPROVED">>, status) THEN "ACTIVE"
    ELSE IF status = "SENT" THEN "PENDING"
    ELSE IF includes(<<"SIGNED">>, status) THEN "SIGNED"
    ELSE IF status \in {"REVOKED", "LOCKED"} THEN "ARCHIVED"
    ELSE "none"

\* The counter a contract of that status adds to.
countedAs(status) ==
    IF includes(<<"CREATED", "APPROVED">>, status) THEN "ACTIVE"
    ELSE IF status = "SENT" THEN "PENDING"
    ELSE IF includes(<<"SIGNED", "LOCKED">>, status) THEN "SIGNED"
    ELSE IF status = "REVOKED" THEN "ARCHIVED"
    ELSE "none"

filterCounts ==
    [f \in DashboardFilters |->
        IF f = "ALL" THEN Len(contracts)
        ELSE Cardinality({i \in DOMAIN contracts : countedAs(contracts[i].status) = f})]

(***************************************************************************)
(* SpecDashboard: the dashboard rendered over a contract collection, with  *)
(* the filter tab and the search box in every combination of the inputs.   *)
(* The collections are those the store can hold: contracts in creation     *)
(* order and named in turn, created from the NDA template, each in any     *)
(* status.                                                                 *)
(***************************************************************************)
DashboardNames == <<"Acme NDA", "Beta Lease">>

SearchInputs == {"", "LEASE", "agreement", "  "}

CreatedAtInputs == 0..1

DashboardTemplate == CHOOSE b \in {DEFAULT_BLUEPRINTS[i] : i \in DOMAIN DEFAULT_BLUEPRINTS} :
                        b.id = "default-nda"

DashboardContract(n, status, createdAt) ==
    [id |-> generateId("contract", n - 1),
     name |-> DashboardNames[((n - 1) % Len(DashboardNames)) + 1],
     blueprintId |-> DashboardTemplate.id,
     blueprintName |-> DashboardTemplate.name,
     status |-> status,
     fields |-> map(DashboardTemplate.fields, contractField),
     createdAt |-> createdAt, updatedAt |-> createdAt]

DashboardCollections ==
    UNION {
      {[i \in 1..n |-> DashboardContract(i, statuses[i], times[i])] :
          statuses \in [1..n -> Statuses],
          times \in {t \in [1..n -> CreatedAtInputs] :
                        \A i \in 1..n : \A j \in 1..n : i < j => t[i] <= t[j]}} :
      n \in 0..MaxContracts}

InitDashboard ==
    /\ blueprints = DEFAULT_BLUEPRINTS
    /\ contracts \in DashboardCollections
    /\ nextId = [contract |-> Len(contracts), blueprint |-> 0, field |-> 0]
    /\ now = IF contracts = <<>> THEN 0 ELSE contracts[Len(contracts)].createdAt
    /\ result = [op |-> "none", ret |-> Undefined]
    /\ query = [fn |-> "none", status |-> "CREATED", to |-> "CREATED",
                filter |-> "ALL", ret |-> "none"]
    /\ history = [id \in ContractIdInputs |-> <<>>]
    /\ debounced = NotCalled

\* One render of the page: both memoised values are computed from the store's
\* collection; the list is sorted on a copy ([...result]).
Dashboard ==
    \E activeFilter \in DashboardFilters, searchQuery \in SearchInputs :
        /\ result' = [op |-> "Dashboard",
                      ret |-> [activeFilter |-> activeFilter,
                               searchQuery |-> searchQuery,
                               filteredContracts |->
                                   filteredContracts(activeFilter, searchQuery),
                               filterCounts |-> filterCounts]]
        /\ UNCHANGED <<blueprints, contracts, nextId, now, query, history, debounced>>

NextDashboard == Dashboard

SpecDashboard == InitDashboard /\ [][NextDashboard]_vars

(***************************************************************************)
(* The contract page: renderField and the render of a contract's fields.   *)
(***************************************************************************)
\* Mutant: in SENT every field is open, the manager's included.
renderField_SentOpensAll(field, status) ==
    LET isManagerField == field.editableBy \in {"undefined", "manager", "both"}
        isDisabled == IF status = "CREATED" THEN ~isManagerField
                      ELSE IF status = "SENT" THEN FALSE
                      ELSE TRUE
    IN [key |-> field.id, type |-> field.type, disabled |-> isDisabled]

renderField(field, status) ==
    LET isManagerField == field.editableBy \in {"undefined", "manager", "both"}
        isClientField == field.editableBy \in {"client", "both"}
        isCreated == status = "CREATED"
        isSent == status = "SENT"
        isDisabled == IF isCreated THEN ~isManagerField
                      ELSE IF isSent THEN ~isClientField
                      ELSE TRUE
    IN [key |-> field.id, type |-> field.type, disabled |-> isDisabled]

\* Array.prototype.sort((a, b) => a.position - b.position): ascending and
\* stable.
sortByPosition(arr) ==
    LET place(i) == 1 + Cardinality({j \in DOMAIN arr :
                        \/ arr[j].position < arr[i].position
                        \/ arr[j].position = arr[i].position /\ j < i})
    IN [k \in DOMAIN arr |-> arr[CHOOSE i \in DOMAIN arr : place(i) = k]]

\* One render of the page for the contract of the route's id.  getContract
\* hands out the store's own contract object, and contract.fields.sort(...)
\* sorts that object's array in place, so the order it leaves is the order
\* the store holds from then on.
ContractView ==
    /\ \E id \in ContractIdInputs :
          LET contract == getContract(id) IN
          IF contract = Undefined
          THEN /\ result' = [op |-> "ContractView", ret |-> Undefined]
               /\ UNCHANGED contracts
          ELSE LET sorted == sortByPosition(contract.fields) IN
               /\ contracts' = map(contracts, LAMBDA c :
                      IF c.id = id THEN [c EXCEPT !.fields = sorted] ELSE c)
               /\ result' = [op |-> "ContractView",
                             ret |-> [id |-> id, status |-> contract.status,
                                      fields |-> map(sorted, LAMBDA f :
                                                    renderField(f, contract.status))]]
    /\ UNCHANGED <<blueprints, nextId, now, query, history, debounced>>

(***************************************************************************)
(* SpecRender: the contract page over one contract in any status whose     *)
(* field is of any type and any editableBy.                                *)
(***************************************************************************)
FieldTypes == {"TEXT", "DATE", "SIGNATURE", "CHECKBOX"}

EditableByInputs == {"manager", "client", "both", "undefined"}

RenderContracts ==
    {<<[id |-> generateId("contract", 0),
        name |-> "Acme NDA",
        blueprintId |-> generateId("blueprint", 0),
        blueprintName |-> "Form",
        status |-> status,
        fields |-> <<contractField(Field("f-1", "Field", type, "false", editableBy, 0))>>,
        createdAt |-> 0, updatedAt |-> 0]>> :
       status \in Statuses, type \in FieldTypes, editableBy \in EditableByInputs}

InitRender ==
    /\ blueprints = DEFAULT_BLUEPRINTS
    /\ contracts \in RenderContracts
    /\ nextId = [contract |-> 1, blueprint |-> 1, field |-> 1]
    /\ now = 0
    /\ result = [op |-> "none", ret |-> Undefined]
    /\ query = [fn |-> "none", status |-> "CREATED", to |-> "CREATED",
                filter |-> "ALL", ret |-> "none"]
    /\ history = [id \in ContractIdInputs |-> <<>>]
    /\ debounced = NotCalled

NextRender == ContractView

SpecRender == InitRender /\ [][NextRender]_vars

(***************************************************************************)
(* SpecView: contracts created, given any field list, moved through the    *)
(* lifecycle and shown on the contract page.                               *)
(***************************************************************************)
NextView ==
    \/ CreateContract
    \/ ReplaceFields
    \/ TransitionStatus
    \/ ContractView

SpecView == Init /\ [][NextView]_vars

(***************************************************************************)
(* SpecSent: contracts of the two-field blueprint (a manager's TEXT field  *)
(* and a client's SIGNATURE field) through the lifecycle, with             *)
(* updateContractFields given the list the sign modal builds or a list     *)
(* that also rewrites the manager's field.                                 *)
(***************************************************************************)
OverwriteInputs(id) ==
    IF getContract(id) = Undefined
    THEN {<<>>}
    ELSE {signedFields(getContract(id)),
          map(signedFields(getContract(id)), LAMBDA f :
              IF f.editableBy = "manager" THEN [f EXCEPT !.value = "Overwritten"]
              ELSE f)}

OverwriteFields ==
    /\ \E id \in ContractIdInputs : \E fields \in OverwriteInputs(id) :
          updateContractFields(id, fields)
    /\ UNCHANGED <<query, history, debounced>>

NextSent ==
    \/ ScenarioAddBlueprint
    \/ ScenarioCreateContract
    \/ OverwriteFields
    \/ TransitionStatus

SpecSent == Init /\ [][NextSent]_vars

(***************************************************************************)
(* SpecUnknown: the lifecycle functions as the runtime evaluates them on   *)
(* any string, one that is not a status included.  A read of a key the     *)
(* table does not have gives undefined; a property read or a method call   *)
(* on undefined throws a TypeError.                                        *)
(***************************************************************************)
UnknownStatus == "DRAFT"

StatusInputs == Statuses \cup {UnknownStatus}

Returns(value) == [outcome |-> "returns", value |-> value]

Throws(error) == [outcome |-> "throws", value |-> error]

\* TRANSITIONS[from].includes(to)
runCanTransition(from, to) ==
    IF from \in DOMAIN TRANSITIONS THEN Returns(canTransition(from, to))
    ELSE Throws("TypeError")

\* TRANSITIONS[status]
runGetValidTransitions(status) ==
    IF status \in DOMAIN TRANSITIONS THEN Returns(getValidTransitions(status))
    ELSE Returns("undefined")

\* EDITABLE_STATES.includes(status)
runIsEditable(status) == Returns(isEditable(status))

\* TRANSITIONS[status].length === 0
runIsTerminal(status) ==
    IF status \in DOMAIN TRANSITIONS THEN Returns(isTerminal(status))
    ELSE Throws("TypeError")

\* STATUS_TO_FILTER[status]
runGetFilterForStatus(status) ==
    IF status \in DOMAIN STATUS_TO_FILTER THEN Returns(getFilterForStatus(status))
    ELSE Returns("undefined")

InitUnknown ==
    /\ blueprints = DEFAULT_BLUEPRINTS
    /\ contracts = <<>>
    /\ nextId = [contract |-> 0, blueprint |-> 0, field |-> 0]
    /\ now = 0
    /\ result = [op |-> "none", ret |-> Undefined]
    /\ query \in {[fn |-> "none", status |-> s, to |-> t, filter |-> "ALL",
                   ret |-> "none"] : s \in StatusInputs, t \in StatusInputs}
    /\ history = [id \in ContractIdInputs |-> <<>>]
    /\ debounced = NotCalled

RunCanTransition ==
    /\ query' = [query EXCEPT !.fn = "canTransition",
                              !.ret = runCanTransition(query.status, query.to)]
    /\ UNCHANGED <<store, history, debounced>>

RunGetValidTransitions ==
    /\ query' = [query EXCEPT !.fn = "getValidTransitions",
                              !.ret = runGetValidTransitions(query.status)]
    /\ UNCHANGED <<store, history, debounced>>

RunIsEditable ==
    /\ query' = [query EXCEPT !.fn = "isEditable", !.ret = runIsEditable(query.status)]
    /\ UNCHANGED <<store, history, debounced>>

RunIsTerminal ==
    /\ query' = [query EXCEPT !.fn = "isTerminal", !.ret = runIsTerminal(query.status)]
    /\ UNCHANGED <<store, history, debounced>>

RunGetFilterForStatus ==
    /\ query' = [query EXCEPT !.fn = "getFilterForStatus",
                              !.ret = runGetFilterForStatus(query.status)]
    /\ UNCHANGED <<store, history, debounced>>

NextUnknown ==
    \/ RunCanTransition
    \/ RunGetValidTransitions
    \/ RunIsEditable
    \/ RunIsTerminal
    \/ RunGetFilterForStatus

SpecUnknown == InitUnknown /\ [][NextUnknown]_vars

(***************************************************************************)
(* SpecFields: the field operations of the blueprint store on the          *)
(* two-field blueprint, each at a later instant than the one before.       *)
(* updateField takes any part of a field, its position included.           *)
(***************************************************************************)
FieldsBlueprintIdInputs == {ScenarioBlueprintId, "no-such-blueprint"}

FieldsFieldIdInputs == {"f-text", "f-signature", "no-such-field"}

FieldPatchInputs == { [label |-> "Disclosing Party"], [position |-> 1] }

FieldsUpdateBlueprint ==
    /\ Later
    /\ \E id \in FieldsBlueprintIdInputs, updates \in BlueprintUpdateInputs :
          updateBlueprint(id, updates)
    /\ UNCHANGED <<query, history, debounced>>

FieldsAddField ==
    /\ Later
    /\ \E blueprintId \in FieldsBlueprintIdInputs, fieldData \in FieldDataInputs :
          addField(blueprintId, fieldData)
    /\ UNCHANGED <<query, history, debounced>>

FieldsUpdateField ==
    /\ Later
    /\ \E blueprintId \in FieldsBlueprintIdInputs, fieldId \in FieldsFieldIdInputs,
          updates \in FieldPatchInputs :
          updateField(blueprintId, fieldId, updates)
    /\ UNCHANGED <<query, history, debounced>>

FieldsDeleteField ==
    /\ Later
    /\ \E blueprintId \in FieldsBlueprintIdInputs, fieldId \in FieldsFieldIdInputs :
          deleteField(blueprintId, fieldId)
    /\ UNCHANGED <<query, history, debounced>>

FieldsReorderFields ==
    /\ Later
    /\ \E blueprintId \in FieldsBlueprintIdInputs, fieldId \in FieldsFieldIdInputs,
          direction \in Directions :
          reorderFields(blueprintId, fieldId, direction)
    /\ UNCHANGED <<query, history, debounced>>

NextFields ==
    \/ ScenarioAddBlueprint
    \/ FieldsUpdateBlueprint
    \/ FieldsAddField
    \/ FieldsUpdateField
    \/ FieldsDeleteField
    \/ FieldsReorderFields

SpecFields == Init /\ [][NextFields]_vars

(***************************************************************************)
(* SpecRevert: up to MaxDrafts contracts at a time created, edited, moved  *)
(* through the lifecycle and deleted, with the statuses each has gone      *)
(* through observed.                                                       *)
(***************************************************************************)
CreateDraftObserved == Len(contracts) < MaxDrafts /\ CreateContractObserved

UpdateContractFieldsObserved == UpdateContractFieldsStep /\ Observed /\ UNCHANGED <<query, debounced>>

NextRevert ==
    \/ CreateDraftObserved
    \/ UpdateContractFieldsObserved
    \/ TransitionStatusObserved
    \/ DeleteContractObserved

SpecRevert == Init /\ [][NextRevert]_vars

(***************************************************************************)
(* SpecReseed: the seeds edited and deleted in a session, contracts        *)
(* created from them, and the store rebuilt from the storage.              *)
(***************************************************************************)
NextReseed ==
    \/ CreateContract
    \/ UpdateBlueprint
    \/ UpdateField
    \/ DeleteField
    \/ DeleteBlueprint
    \/ Hydrate

SpecReseed == Init /\ [][NextReseed]_vars

(***************************************************************************)
(* SpecDebounce: one debounce(fn, DebounceMs) closure.  The debounced      *)
(* function is called at any instant; a timer's callback runs at its       *)
(* deadline or later, when the event loop gets to it: setTimeout promises  *)
(* no less than the delay, and no callback runs while a caller is busy.    *)
(***************************************************************************)
ArgInputs == {"first", "last"}

DebouncedCall ==
    /\ Len(debounced.calls) < MaxCalls
    /\ \E args \in ArgInputs : debouncedCall(args)
    /\ UNCHANGED <<store, query, history>>

TimerFires ==
    /\ \E t \in debounced.timers : t.at <= now /\ timerCallback(t)
    /\ UNCHANGED <<store, query, history>>

Elapse ==
    /\ now < MaxClock
    /\ now' = now + 1
    /\ UNCHANGED <<blueprints, contracts, nextId, result, query, history, debounced>>

NextDebounce ==
    \/ DebouncedCall
    \/ TimerFires
    \/ Elapse

SpecDebounce == Init /\ [][NextDebounce]_vars

(***************************************************************************)
(* SpecEngine: the lifecycle engine's pure functions, applied to every     *)
(* status and every pair of statuses.                                      *)
(***************************************************************************)
InitEngine ==
    /\ blueprints = DEFAULT_BLUEPRINTS
    /\ contracts = <<>>
    /\ nextId = [contract |-> 0, blueprint |-> 0, field |-> 0]
    /\ now = 0
    /\ result = [op |-> "none", ret |-> Undefined]
    /\ query \in {[fn |-> "none", status |-> s, to |-> t, filter |-> f, ret |-> "none"] :
                     s \in Statuses, t \in Statuses, f \in DashboardFilters}
    /\ history = [id \in ContractIdInputs |-> <<>>]
    /\ debounced = NotCalled

CallCanTransition ==
    /\ query' = [query EXCEPT !.fn = "canTransition",
                              !.ret = canTransition(query.status, query.to)]
    /\ UNCHANGED <<store, history, debounced>>

CallGetValidTransitions ==
    /\ query' = [query EXCEPT !.fn = "getValidTransitions",
                              !.ret = getValidTransitions(query.status)]
    /\ UNCHANGED <<store, history, debounced>>

CallIsEditable ==
    /\ query' = [query EXCEPT !.fn = "isEditable", !.ret = isEditable(query.status)]
    /\ UNCHANGED <<store, history, debounced>>

CallIsTerminal ==
    /\ query' = [query EXCEPT !.fn = "isTerminal", !.ret = isTerminal(query.status)]
    /\ UNCHANGED <<store, history, debounced>>

CallGetFilterForStatus ==
    /\ query' = [query EXCEPT !.fn = "getFilterForStatus",
                              !.ret = getFilterForStatus(query.status)]
    /\ UNCHANGED <<store, history, debounced>>

CallGetStatusesForFilter ==
    /\ query' = [query EXCEPT !.fn = "getStatusesForFilter",
                              !.ret = getStatusesForFilter(query.filter)]
    /\ UNCHANGED <<store, history, debounced>>

NextEngine ==
    \/ CallCanTransition
    \/ CallGetValidTransitions
    \/ CallIsEditable
    \/ CallIsTerminal
    \/ CallGetFilterForStatus
    \/ CallGetStatusesForFilter

SpecEngine == InitEngine /\ [][NextEngine]_vars

(***************************************************************************)
(* C1: getValidTransitions(status) is, for each of the six statuses, the   *)
(* list tabulated for it, in the tabulated order.                          *)
(***************************************************************************)
C1_ValidTransitionsAsTabulated ==
    query.fn = "getValidTransitions" =>
        /\ query.status = "CREATED"  => query.ret = <<"APPROVED", "REVOKED">>
        /\ query.status = "APPROVED" => query.ret = <<"SENT", "CREATED", "REVOKED">>
        /\ query.status = "SENT"     => query.ret = <<"SIGNED", "REVOKED">>
        /\ query.status = "SIGNED"   => query.ret = <<"LOCKED">>
        /\ query.status = "LOCKED"   => query.ret = <<>>
        /\ query.status = "REVOKED"  => query.ret = <<>>

C1_Witness ==
    /\ query.fn = "getValidTransitions"
    /\ query.status = "APPROVED"
    /\ query.ret = <<"SENT", "CREATED", "REVOKED">>

(***************************************************************************)
(* C2: transitionStatus(id, newStatus) returns true and commits exactly    *)
(* when a contract with that id exists and canTransition(its status,       *)
(* newStatus) holds; otherwise (unknown id, a pair not in the table, also  *)
(* newStatus equal to the current status) it returns false and the         *)
(* contract collection is unchanged.                                       *)
(***************************************************************************)
C2_TransitionCommitsIffAllowed ==
    [][\A id \in ContractIdInputs, newStatus \in Statuses :
          (result'.op = "transitionStatus" /\ transitionStatus(id, newStatus)) =>
             LET allowed == /\ present(contracts, id)
                            /\ canTransition(contractIn(contracts, id).status, newStatus)
             IN /\ result'.ret = allowed
                /\ allowed => contractIn(contracts', id).status = newStatus
                /\ ~allowed => contracts' = contracts
                /\ (present(contracts, id)
                       /\ contractIn(contracts, id).status = newStatus)
                      => result'.ret = FALSE /\ contracts' = contracts
       ]_vars

\* Every id is a contract in APPROVED, the last call was a transitionStatus
\* that returned true: a committed transition into APPROVED.
C2_Witness ==
    /\ result.op = "transitionStatus" /\ result.ret = TRUE
    /\ \A id \in ContractIdInputs :
          present(contracts, id) /\ contractIn(contracts, id).status = "APPROVED"

(***************************************************************************)
(* C3: the status of an existing contract is changed only by               *)
(* transitionStatus: a createContract, an updateContractFields or a        *)
(* deleteContract never changes the status of a contract that is in the    *)
(* collection before and after; every status is one of the six values, and *)
(* a new contract starts in CREATED.                                       *)
(***************************************************************************)
C3_StatusChangedOnlyByTransition ==
    /\ [](\A i \in DOMAIN contracts : contracts[i].status \in Statuses)
    /\ [][\A id \in ContractIdInputs :
             /\ (present(contracts, id) /\ present(contracts', id)
                    /\ contractIn(contracts', id).status # contractIn(contracts, id).status)
                   => /\ result'.op = "transitionStatus"
                      /\ result'.ret = TRUE
                      /\ transitionStatus(id, contractIn(contracts', id).status)
             /\ (~present(contracts, id) /\ present(contracts', id))
                   => contractIn(contracts', id).status = "CREATED"
          ]_vars

\* A second contract was created while the first was in SENT, which it still is.
C3_Witness ==
    /\ result.op = "createContract" /\ result.ret # Undefined
    /\ Len(contracts) = 2
    /\ contracts[1].status = "SENT"
    /\ contracts[2] = result.ret

(***************************************************************************)
(* C4: LOCKED and REVOKED are absorbing: a contract in one of them keeps   *)
(* that status under every operation, until it is deleted.                 *)
(***************************************************************************)
C4_TerminalAbsorbing ==
    [][\A id \in ContractIdInputs :
          (present(contracts, id)
              /\ contractIn(contracts, id).status \in {"LOCKED", "REVOKED"}
              /\ present(contracts', id))
             => contractIn(contracts', id).status = contractIn(contracts, id).status
       ]_vars

\* Every id is a contract in LOCKED or REVOKED, both occur, and the last call,
\* a transitionStatus on one of them, returned false.
C4_Witness ==
    /\ result.op = "transitionStatus" /\ result.ret = FALSE
    /\ \A id \in ContractIdInputs :
          present(contracts, id)
              /\ contractIn(contracts, id).status \in {"LOCKED", "REVOKED"}
    /\ \E i, j \in DOMAIN contracts :
          contracts[i].status = "LOCKED" /\ contracts[j].status = "REVOKED"

C7_ValuesChangeOnlyInCreated ==
    [][\A id \in ContractIdInputs :
          (present(contracts, id)
              /\ contractIn(contracts, id).status # "CREATED"
              /\ present(contracts', id))
             => contractIn(contracts', id).fields = contractIn(contracts, id).fields
       ]_vars

(***************************************************************************)
(* C8: no skipping: a contract's status becomes LOCKED only by a           *)
(* transitionStatus that returns true on a contract in SIGNED;             *)
(* transitionStatus(id, "LOCKED") on a contract in any other status        *)
(* returns false and leaves the collection as it is; and the statuses a    *)
(* LOCKED contract went through contain APPROVED, then SENT, then SIGNED,  *)
(* in that order, before LOCKED.                                           *)
(***************************************************************************)
C8_LockedOnlyThroughSigned ==
    /\ [](\A id \in ContractIdInputs :
             (present(contracts, id) /\ contractIn(contracts, id).status = "LOCKED")
                => LET h == history[id]
                       n == Len(h)
                   IN /\ n >= 4
                      /\ h[n] = "LOCKED"
                      /\ \E i, j, k \in 1..(n - 1) :
                            /\ i < j /\ j < k
                            /\ h[i] = "APPROVED" /\ h[j] = "SENT" /\ h[k] = "SIGNED")
    /\ [][\A id \in ContractIdInputs :
             /\ (present(contracts', id)
                    /\ contractIn(contracts', id).status = "LOCKED"
                    /\ ~(present(contracts, id)
                            /\ contractIn(contracts, id).status = "LOCKED"))
                   => /\ present(contracts, id)
                      /\ contractIn(contracts, id).status = "SIGNED"
                      /\ result' = [op |-> "transitionStatus", ret |-> TRUE]
             /\ (result'.op = "transitionStatus"
                    /\ transitionStatus(id, "LOCKED")
                    /\ present(contracts, id)
                    /\ contractIn(contracts, id).status # "SIGNED")
                   => result'.ret = FALSE /\ contracts' = contracts
          ]_vars

\* A contract that went through APPROVED, SENT and SIGNED was
\* LOCKED by the last call; the other contract is still in SENT.
C8_Witness ==
    /\ result = [op |-> "transitionStatus", ret |-> TRUE]
    /\ \E id \in ContractIdInputs :
          /\ present(contracts, id)
          /\ contractIn(contracts, id).status = "LOCKED"
          /\ history[id] = <<"APPROVED", "SENT", "SIGNED", "LOCKED">>
    /\ \E id \in ContractIdInputs :
          present(contracts, id) /\ contractIn(contracts, id).status = "SENT"

(***************************************************************************)
(* C9: a contract enters REVOKED only from CREATED, APPROVED or SENT: a    *)
(* contract in SIGNED or LOCKED stays in SIGNED or LOCKED under every      *)
(* operation, and a contract that has been through SIGNED is never in      *)
(* REVOKED.                                                                *)
(***************************************************************************)
C9_RevokedOnlyBeforeSigning ==
    /\ [](\A id \in ContractIdInputs :
             (present(contracts, id) /\ includes(history[id], "SIGNED"))
                => contractIn(contracts, id).status # "REVOKED")
    /\ [][\A id \in ContractIdInputs :
             /\ (present(contracts', id)
                    /\ contractIn(contracts', id).status = "REVOKED"
                    /\ ~(present(contracts, id)
                            /\ contractIn(contracts, id).status = "REVOKED"))
                   => /\ present(contracts, id)
                      /\ contractIn(contracts, id).status \in {"CREATED", "APPROVED", "SENT"}
             /\ (present(contracts, id)
                    /\ contractIn(contracts, id).status \in {"SIGNED", "LOCKED"}
                    /\ present(contracts', id))
                   => contractIn(contracts', id).status \in {"SIGNED", "LOCKED"}
          ]_vars

\* One contract was revoked from SENT; the other has been signed, and the last
\* call, a transitionStatus, returned false.
C9_Witness ==
    /\ result = [op |-> "transitionStatus", ret |-> FALSE]
    /\ \E id \in ContractIdInputs :
          /\ present(contracts, id)
          /\ contractIn(contracts, id).status = "REVOKED"
          /\ history[id] = <<"CREATED", "APPROVED", "SENT", "REVOKED">>
    /\ \E id \in ContractIdInputs :
          /\ present(contracts, id)
          /\ contractIn(contracts, id).status = "SIGNED"
          /\ includes(history[id], "SIGNED")

(***************************************************************************)
(* C10: a createContract on a blueprint of the catalog appends one         *)
(* contract, in CREATED, with as many fields as the blueprint has, in the  *)
(* blueprint's order; each field has the id, type, label, position,        *)
(* required and editableBy of the blueprint's field; a CHECKBOX field      *)
(* starts with its defaultChecked if that is set and with false if not,    *)
(* every other field starts with null.                                     *)
(***************************************************************************)
C10_ContractCopiesBlueprintFields ==
    [][(result'.op = "createContract" /\ result'.ret # Undefined) =>
          LET contract == result'.ret
              blueprint == getBlueprint(contract.blueprintId)
          IN /\ blueprint # Undefined
             /\ contracts' = Append(contracts, contract)
             /\ contract.status = "CREATED"
             /\ Len(contract.fields) = Len(blueprint.fields)
             /\ \A i \in DOMAIN blueprint.fields :
                   LET f == blueprint.fields[i]
                       g == contract.fields[i]
                   IN /\ g.id = f.id /\ g.type = f.type /\ g.label = f.label
                      /\ g.position = f.position /\ g.required = f.required
                      /\ g.editableBy = f.editableBy
                      /\ g.value = IF f.type # "CHECKBOX" THEN "null"
                                   ELSE IF f.defaultChecked = "undefined" THEN "false"
                                   ELSE f.defaultChecked
      ]_vars

\* The last call created a contract from the user's two-checkbox blueprint: one
\* box starts checked, the other not.
C10_Witness ==
    /\ result.op = "createContract" /\ result.ret # Undefined
    /\ result.ret.blueprintId = generateId("blueprint", 0)
    /\ Len(result.ret.fields) = 2
    /\ result.ret.fields[1].type = "CHECKBOX" /\ result.ret.fields[1].value = "true"
    /\ result.ret.fields[2].type = "CHECKBOX" /\ result.ret.fields[2].value = "false"
    /\ contracts[Len(contracts)] = result.ret

(***************************************************************************)
(* C11: createContract with a blueprintId that no blueprint of the catalog *)
(* has returns undefined and leaves the contract collection as it is.      *)
(***************************************************************************)
C11_UnknownBlueprintCreatesNothing ==
    [][\A name \in ContractNames, blueprintId \in BlueprintIdInputs :
          (/\ result'.op = "createContract"
           /\ getBlueprint(blueprintId) = Undefined
           /\ createContract([name |-> name, blueprintId |-> blueprintId]))
             => result'.ret = Undefined /\ contracts' = contracts
       ]_vars

\* With a contract in the collection, the last createContract returned
\* undefined, and the collection holds that one contract still.
C11_Witness ==
    /\ result = [op |-> "createContract", ret |-> Undefined]
    /\ Len(contracts) = 1
    /\ nextId.contract = 1

(***************************************************************************)
(* C12: snapshot isolation: an updateBlueprint, addField, updateField,     *)
(* deleteField or reorderFields on a blueprint changes nothing of the      *)
(* contracts created from it: every contract keeps its field list, with    *)
(* the labels and the values it had.                                       *)
(***************************************************************************)
C12_BlueprintEditsLeaveContracts ==
    [][result'.op \in {"updateBlueprint", "addField", "updateField",
                       "deleteField", "reorderFields"}
          => /\ Len(contracts') = Len(contracts)
             /\ \A i \in DOMAIN contracts :
                   /\ contracts'[i].id = contracts[i].id
                   /\ contracts'[i].fields = contracts[i].fields
       ]_vars

\* The blueprint's first field was deleted by the last call; the contract
\* created from the blueprint before that has the field, with its label.
C12_Witness ==
    /\ result = [op |-> "deleteField", ret |-> TRUE]
    /\ getBlueprint("default-nda") # Undefined
    /\ ~some(getBlueprint("default-nda").fields, LAMBDA f : f.id = "nda-party-name")
    /\ Len(getBlueprint("default-nda").fields) = 6
    /\ getBlueprint("default-nda").fields[1].position = 0
    /\ Len(contracts) >= 1
    /\ contracts[1].blueprintId = "default-nda"
    /\ Len(contracts[1].fields) = 7
    /\ contracts[1].fields[1].id = "nda-party-name"
    /\ contracts[1].fields[1].label = "Receiving Party Name"
    /\ contracts[1].fields[1].value = "null"

(***************************************************************************)
(* C13: under every repository operation a contract's fields keep the id,  *)
(* type, label, position, required and editableBy they were created with,  *)
(* only values change; and a contract has fields exactly when its          *)
(* blueprint has.                                                          *)
(***************************************************************************)
C13_FieldShapeFixedAtCreation ==
    /\ [](\A i \in DOMAIN contracts :
             getBlueprint(contracts[i].blueprintId) # Undefined
                => (Len(contracts[i].fields) > 0
                       <=> Len(getBlueprint(contracts[i].blueprintId).fields) > 0))
    /\ [][\A id \in ContractIdInputs :
             (present(contracts, id) /\ present(contracts', id))
                => LET old == contractIn(contracts, id).fields
                       new == contractIn(contracts', id).fields
                   IN /\ Len(new) = Len(old)
                      /\ \A k \in DOMAIN old :
                            /\ new[k].id = old[k].id
                            /\ new[k].type = old[k].type
                            /\ new[k].label = old[k].label
                            /\ new[k].position = old[k].position
                            /\ new[k].required = old[k].required
                            /\ new[k].editableBy = old[k].editableBy
          ]_vars

(***************************************************************************)
(* C14: deleteBlueprint does not cascade: the contracts created from the   *)
(* deleted blueprint stay in the collection, each with the blueprintId,    *)
(* blueprintName, status and fields it had.                                *)
(***************************************************************************)
C14_DeleteBlueprintKeepsContracts ==
    [][result'.op = "deleteBlueprint"
          => /\ Len(contracts') = Len(contracts)
             /\ \A i \in DOMAIN contracts :
                   /\ contracts'[i].id = contracts[i].id
                   /\ contracts'[i].blueprintId = contracts[i].blueprintId
                   /\ contracts'[i].blueprintName = contracts[i].blueprintName
                   /\ contracts'[i].status = contracts[i].status
                   /\ contracts'[i].fields = contracts[i].fields
       ]_vars

\* The last call deleted the blueprint two contracts were created from; both
\* contracts are there, under the blueprint's name.
C14_Witness ==
    /\ result = [op |-> "deleteBlueprint", ret |-> TRUE]
    /\ getBlueprint("default-nda") = Undefined
    /\ Len(contracts) = 2
    /\ \A i \in DOMAIN contracts :
          /\ contracts[i].blueprintId = "default-nda"
          /\ contracts[i].blueprintName = "Non-Disclosure Agreement (NDA)"
          /\ contracts[i].status = "CREATED"
          /\ Len(contracts[i].fields) = 7

(***************************************************************************)
(* C15: deleteContract(id) on a contract of the collection, in whichever   *)
(* of the six statuses, removes it and returns true; with no such contract *)
(* it returns false and the collection is as it was, so a second delete of *)
(* the id returns false; every other contract stays, unaltered.            *)
(***************************************************************************)
C15_DeleteAtAnyStatus ==
    [][\A id \in ContractIdInputs :
          (result'.op = "deleteContract" /\ deleteContract(id)) =>
             /\ result'.ret = present(contracts, id)
             /\ ~present(contracts', id)
             /\ ~present(contracts, id) => contracts' = contracts
             /\ \A other \in ContractIdInputs \ {id} :
                   contractIn(contracts', other) = contractIn(contracts, other)
             /\ Len(contracts') = Len(contracts) - (IF present(contracts, id) THEN 1 ELSE 0)
       ]_vars

\* Of two contracts created, one was deleted by the last call; the other is
\* there, LOCKED as before.
C15_Witness ==
    /\ result = [op |-> "deleteContract", ret |-> TRUE]
    /\ nextId.contract = 2
    /\ Len(contracts) = 1
    /\ contracts[1].status = "LOCKED"

(***************************************************************************)
(* C16: the end-to-end scenario.  A contract created from the blueprint    *)
(* with a required TEXT field and a client's SIGNATURE field is in         *)
(* CREATED, has 2 fields and a null signature; from CREATED the transition *)
(* to APPROVED succeeds, from APPROVED the one to SENT; in SENT the        *)
(* transition to LOCKED fails and the status stays SENT, an                *)
(* updateContractFields that sets the signature succeeds, and the          *)
(* transition to SIGNED succeeds; from SIGNED the transition to LOCKED     *)
(* succeeds; in LOCKED updateContractFields fails and the transition to    *)
(* REVOKED fails.                                                          *)
(***************************************************************************)
C16_EndToEndScenario ==
    [][\A id \in ContractIdInputs :
          LET before == contractIn(contracts, id)
              after == contractIn(contracts', id)
              isStep(from, to) ==
                  /\ result'.op = "transitionStatus"
                  /\ present(contracts, id) /\ before.status = from
                  /\ transitionStatus(id, to)
              isSign(from) ==
                  /\ result'.op = "updateContractFields"
                  /\ present(contracts, id) /\ before.status = from
                  /\ updateContractFields(id, signedFields(before))
              moved(to) == result'.ret = TRUE /\ after.status = to
              refused == result'.ret = FALSE /\ contracts' = contracts
          IN /\ (~present(contracts, id) /\ present(contracts', id))
                   => /\ result' = [op |-> "createContract", ret |-> after]
                      /\ after.status = "CREATED"
                      /\ Len(after.fields) = 2
                      /\ after.fields[1].type = "TEXT"
                      /\ after.fields[1].required = "true"
                      /\ after.fields[2].type = "SIGNATURE"
                      /\ after.fields[2].editableBy = "client"
                      /\ after.fields[2].value = "null"
             /\ isStep("CREATED", "APPROVED") => moved("APPROVED")
             /\ isStep("APPROVED", "SENT") => moved("SENT")
             /\ isStep("SENT", "LOCKED") => refused
             /\ isSign("SENT")
                   => /\ result'.ret = TRUE
                      /\ after.status = "SENT"
                      /\ after.fields[2].value = modalSignature
             /\ isStep("SENT", "SIGNED") => moved("SIGNED")
             /\ isStep("SIGNED", "LOCKED") => moved("LOCKED")
             /\ isSign("LOCKED") => refused
             /\ isStep("LOCKED", "REVOKED") => refused
       ]_vars

\* The end of the scenario: the first contract is LOCKED and holds the
\* signature it was given, and the last call, a transitionStatus, was refused.
C16_Witness ==
    /\ result = [op |-> "transitionStatus", ret |-> FALSE]
    /\ Len(contracts) = 1
    /\ contracts[1].blueprintId = ScenarioBlueprintId
    /\ contracts[1].status = "LOCKED"
    /\ contracts[1].fields[1].value = "null"
    /\ contracts[1].fields[2].value = modalSignature

(***************************************************************************)
(* C17: for each of the 36 pairs of statuses, canTransition(s, t) is true  *)
(* exactly when t is in getValidTransitions(s); the one move back along    *)
(* CREATED, APPROVED, SENT, SIGNED, LOCKED that it allows is APPROVED to   *)
(* CREATED, and it allows no move from a status to itself.                 *)
(***************************************************************************)
C17_CanTransitionIsMembership ==
    query.fn = "canTransition" =>
        LET path == <<"CREATED", "APPROVED", "SENT", "SIGNED", "LOCKED">>
            valid == getValidTransitions(query.status)
        IN /\ query.ret = (\E i \in DOMAIN valid : valid[i] = query.to)
           /\ query.ret = TRUE => query.to # query.status
           /\ (query.ret = TRUE
                  /\ \E i, j \in DOMAIN path :
                        path[i] = query.status /\ path[j] = query.to /\ j < i)
                 => query.status = "APPROVED" /\ query.to = "CREATED"

C17_Witness ==
    /\ query.fn = "canTransition"
    /\ query.status = "APPROVED" /\ query.to = "CREATED"
    /\ query.ret = TRUE

(***************************************************************************)
(* C18: for each of the six statuses, isTerminal(s) is true exactly when   *)
(* s is LOCKED or REVOKED.                                                 *)
(***************************************************************************)
C18_TerminalIsLockedOrRevoked ==
    query.fn = "isTerminal" => query.ret = (query.status \in {"LOCKED", "REVOKED"})

C18_Witness ==
    /\ query.fn = "isTerminal"
    /\ query.status = "REVOKED"
    /\ query.ret = TRUE

(***************************************************************************)
(* C19: for each of the six statuses, isEditable(s) is true exactly when   *)
(* s is CREATED.                                                           *)
(***************************************************************************)
C19_EditableIsCreated ==
    query.fn = "isEditable" => query.ret = (query.status = "CREATED")

C19_Witness ==
    /\ query.fn = "isEditable"
    /\ query.status = "SENT"
    /\ query.ret = FALSE

(***************************************************************************)
(* C20: getFilterForStatus and getStatusesForFilter are inverses: a status *)
(* is in the statuses of its own category; every status of a category      *)
(* other than ALL has that category; each status is in exactly one of the  *)
(* four categories' lists, once; and the statuses of ALL are the six.      *)
(***************************************************************************)
C20_FilterMapsAreInverse ==
    /\ query.fn = "getFilterForStatus"
          => /\ query.ret \in DashboardFilters \ {"ALL"}
             /\ includes(getStatusesForFilter(query.ret), query.status)
    /\ query.fn = "getStatusesForFilter"
          => /\ \A i, j \in DOMAIN query.ret : query.ret[i] = query.ret[j] => i = j
             /\ IF query.filter = "ALL"
                THEN {query.ret[i] : i \in DOMAIN query.ret} = Statuses
                ELSE /\ \A i \in DOMAIN query.ret :
                           getFilterForStatus(query.ret[i]) = query.filter
                     /\ \A s \in Statuses :
                           getFilterForStatus(s) = query.filter
                              => includes(query.ret, s)
                     /\ \A c \in DashboardFilters \ {"ALL", query.filter} :
                           \A i \in DOMAIN query.ret :
                              ~includes(getStatusesForFilter(c), query.ret[i])
                     /\ \A s \in Statuses :
                           \E c \in DashboardFilters \ {"ALL"} :
                              includes(getStatusesForFilter(c), s)

C20_Witness ==
    /\ query.fn = "getStatusesForFilter"
    /\ query.filter = "SIGNED"
    /\ query.ret = <<"SIGNED", "LOCKED">>

(***************************************************************************)
(* C21: getFilterForStatus gives ACTIVE for CREATED and APPROVED, PENDING  *)
(* for SENT, SIGNED for SIGNED and LOCKED, ARCHIVED for REVOKED; and every *)
(* status the transition table leads to from CREATED has one of the four   *)
(* categories.                                                             *)
(***************************************************************************)
C21_CategoryOfEachStatus ==
    query.fn = "getFilterForStatus" =>
        /\ query.status \in {"CREATED", "APPROVED"} => query.ret = "ACTIVE"
        /\ query.status = "SENT" => query.ret = "PENDING"
        /\ query.status \in {"SIGNED", "LOCKED"} => query.ret = "SIGNED"
        /\ query.status = "REVOKED" => query.ret = "ARCHIVED"
        /\ LET step(S) == S \cup {t \in Statuses :
                              \E s \in S : canTransition(s, t)}
               reachable == step(step(step(step(step({"CREATED"})))))
           IN /\ step(reachable) = reachable
              /\ \A s \in reachable :
                    getFilterForStatus(s) \in {"ACTIVE", "PENDING", "SIGNED", "ARCHIVED"}

C21_Witness ==
    /\ query.fn = "getFilterForStatus"
    /\ query.status = "LOCKED"
    /\ query.ret = "SIGNED"

(***************************************************************************)
(* C22: seed reconciliation on load: whatever the storage holds, nothing   *)
(* or an empty list included, the catalog after the load has each of the   *)
(* four seed ids once, and has the persisted blueprints that are not seeds *)
(* as they were persisted, in the order they were persisted in.            *)
(***************************************************************************)
C22_LoadReconcilesSeeds ==
    result.op = "hydrate" =>
        LET seedIds == {"default-employment-contract", "default-nda",
                        "default-freelance", "default-rental"}
            persisted == IF result.ret = Undefined THEN <<>>
                         ELSE result.ret.blueprints
        IN /\ \A id \in seedIds :
                 Cardinality({i \in DOMAIN blueprints : blueprints[i].id = id}) = 1
           /\ SelectSeq(blueprints, LAMBDA b : b.id \notin seedIds)
                 = SelectSeq(persisted, LAMBDA b : b.id \notin seedIds)

\* The load found the list of an earlier session: the catalog is the four
\* seeds and the user's two blueprints, in their order.
C22_Witness ==
    /\ result.op = "hydrate"
    /\ result.ret # Undefined
    /\ Len(result.ret.blueprints) = 3
    /\ Len(blueprints) = 6
    /\ blueprints[5].id = "persisted-b"
    /\ blueprints[6].id = "persisted-a"
    /\ Len(blueprints[6].fields) = 1

(***************************************************************************)
(* C23: the seed blueprints always exist: in every state of the catalog,   *)
(* after addBlueprint, deleteBlueprint and reloads in any order, the four  *)
(* seed ids are in the blueprint collection.                               *)
(***************************************************************************)
C23_SeedsAlwaysPresent ==
    \A id \in {"default-employment-contract", "default-nda",
               "default-freelance", "default-rental"} :
        getBlueprint(id) # Undefined

\* C24: the dashboard's category counts agree with getFilterForStatus: the
\* count of a category is the number of contracts whose status maps to it,
\* ALL is the size of the collection, and the four categories sum to ALL.
C24_CountsAgreeWithCategories ==
    result.op = "Dashboard" =>
        LET counts == result.ret.filterCounts IN
        /\ \A f \in DashboardFilters \ {"ALL"} :
              counts[f] = Cardinality({i \in DOMAIN contracts :
                                          getFilterForStatus(contracts[i].status) = f})
        /\ counts["ALL"] = Len(contracts)
        /\ counts["ACTIVE"] + counts["PENDING"] + counts["SIGNED"] + counts["ARCHIVED"]
              = counts["ALL"]

\* C24 witness: a dashboard over a LOCKED and a REVOKED contract counts one
\* signed and one archived.
C24_Witness ==
    /\ result.op = "Dashboard"
    /\ Len(contracts) = 2
    /\ contracts[1].status = "LOCKED"
    /\ contracts[2].status = "REVOKED"
    /\ result.ret.filterCounts["SIGNED"] = 1
    /\ result.ret.filterCounts["ARCHIVED"] = 1

\* The contracts the dashboard lists when the search filter is applied to
\* every query (everyQuery) or only to a query that is not blank.
C25_Listed(c, activeFilter, searchQuery, everyQuery) ==
    /\ activeFilter = "ALL"
          \/ includes(getStatusesForFilter(activeFilter), c.status)
    /\ \/ ~everyQuery /\ trim(searchQuery) = ""
       \/ stringIncludes(toLowerCase(c.name), toLowerCase(searchQuery))
       \/ stringIncludes(toLowerCase(c.blueprintName), toLowerCase(searchQuery))

C25_ListIs(list, stored, activeFilter, searchQuery, everyQuery) ==
    /\ \A k \in DOMAIN list :
          \E i \in DOMAIN stored :
              /\ list[k] = stored[i]
              /\ C25_Listed(stored[i], activeFilter, searchQuery, everyQuery)
    /\ \A i \in DOMAIN stored :
          C25_Listed(stored[i], activeFilter, searchQuery, everyQuery)
              => Cardinality({k \in DOMAIN list : list[k].id = stored[i].id}) = 1
    /\ \A k \in DOMAIN list : \A l \in DOMAIN list :
          k < l => list[k].createdAt >= list[l].createdAt

\* C25 (amended): the dashboard's list is exactly the contracts whose status
\* is in getStatusesForFilter(filter) (all of them for ALL) and, unless the
\* query is empty or blank, whose name or blueprintName contains the query
\* case-insensitively, most recently created first; computing it leaves the
\* stored collection and its order as they were.
C25_ListIsFilterSearchSort ==
    [][result'.op = "Dashboard" =>
          /\ C25_ListIs(result'.ret.filteredContracts, contracts,
                        result'.ret.activeFilter, result'.ret.searchQuery, FALSE)
          /\ contracts' = contracts]_vars

\* C25 witness: the search for LEASE under ALL lists the one contract named
\* Beta Lease out of two, and the stored collection keeps both.
C25_Witness ==
    /\ result.op = "Dashboard"
    /\ result.ret.activeFilter = "ALL"
    /\ result.ret.searchQuery = "LEASE"
    /\ Len(contracts) = 2
    /\ contracts[1].name = "Acme NDA"
    /\ contracts[2].name = "Beta Lease"
    /\ result.ret.filteredContracts = <<contracts[2]>>

\* C25 as stated: every query, a blank one included, restricts the list to
\* the contracts whose name or blueprintName contains it.
C25_ListIsFilterSearchSortAnyQuery ==
    [][result'.op = "Dashboard" =>
          /\ C25_ListIs(result'.ret.filteredContracts, contracts,
                        result'.ret.activeFilter, result'.ret.searchQuery, TRUE)
          /\ contracts' = contracts]_vars

C27_UnknownStatusThrows ==
    (\/ query.fn = "canTransition"
           /\ (query.status \notin Statuses \/ query.to \notin Statuses)
     \/ query.fn \in {"getValidTransitions", "isEditable", "isTerminal",
                      "getFilterForStatus"}
           /\ query.status \notin Statuses)
        => query.ret.outcome = "throws"

\* The blueprint has no field of that id.
C28_FieldMissing(blueprintId, fieldId) ==
    /\ getBlueprint(blueprintId) # Undefined
    /\ ~some(getBlueprint(blueprintId).fields, LAMBDA f : f.id = fieldId)

\* C28: an operation given the id of no blueprint, no contract or no field
\* says so in its result (false, or no value) and leaves the blueprints and
\* the contracts as they were.
C28_MissingIdsRefused ==
    [][LET kept == blueprints' = blueprints /\ contracts' = contracts IN
       /\ \A id \in CatalogIdInputs : getBlueprint(id) = Undefined =>
             /\ result'.op = "updateBlueprint" =>
                   \A updates \in BlueprintUpdateInputs :
                       updateBlueprint(id, updates) => result'.ret = Undefined /\ kept
             /\ (result'.op = "deleteBlueprint" /\ deleteBlueprint(id))
                   => result'.ret = FALSE /\ kept
             /\ result'.op = "addField" =>
                   \A fieldData \in FieldDataInputs :
                       addField(id, fieldData) => result'.ret = Undefined /\ kept
       /\ \A blueprintId \in CatalogIdInputs : \A fieldId \in FieldIdInputs :
             (getBlueprint(blueprintId) = Undefined
                 \/ C28_FieldMissing(blueprintId, fieldId)) =>
             /\ result'.op = "updateField" =>
                   \A updates \in FieldUpdateInputs :
                       updateField(blueprintId, fieldId, updates)
                           => result'.ret = FALSE /\ kept
             /\ (result'.op = "deleteField" /\ deleteField(blueprintId, fieldId))
                   => result'.ret = FALSE /\ kept
             /\ result'.op = "reorderFields" =>
                   \A direction \in Directions :
                       reorderFields(blueprintId, fieldId, direction)
                           => result'.ret = FALSE /\ kept
       /\ \A id \in ContractIdInputs : getContract(id) = Undefined =>
             /\ result'.op = "updateContractFields" =>
                   \A fields \in FieldsInputs(id) :
                       updateContractFields(id, fields) => result'.ret = FALSE /\ kept
             /\ result'.op = "transitionStatus" =>
                   \A newStatus \in Statuses :
                       transitionStatus(id, newStatus) => result'.ret = FALSE /\ kept
             /\ (result'.op = "deleteContract" /\ deleteContract(id))
                   => result'.ret = FALSE /\ kept
      ]_vars

\* C29: the contract page, which sorts the fields of the contract it got
\* from getContract in place while rendering, leaves the contracts the
\* repository holds as they were, whatever the contract's status.
C29_RenderLeavesStoreUnchanged ==
    [][result'.op = "ContractView" => contracts' = contracts]_vars

C31_PositionsAreIndices ==
    \A i \in DOMAIN blueprints : \A k \in DOMAIN blueprints[i].fields :
        blueprints[i].fields[k].position = k - 1

\* The blueprint of that id after the step.
C32_After(blueprintId) == find(blueprints', LAMBDA bp : bp.id = blueprintId)

\* C32: deleteField on a blueprint that has the field leaves the other
\* fields, in the order they had, with positions 0..n-2 and nothing else
\* about them changed.
C32_DeleteFieldRenumbers ==
    [][result'.op = "deleteField" =>
          \A blueprintId \in FieldsBlueprintIdInputs : \A fieldId \in FieldsFieldIdInputs :
              (/\ getBlueprint(blueprintId) # Undefined
               /\ some(getBlueprint(blueprintId).fields, LAMBDA f : f.id = fieldId)
               /\ deleteField(blueprintId, fieldId)) =>
                 LET old == getBlueprint(blueprintId).fields
                     new == C32_After(blueprintId).fields
                     at == CHOOSE k \in DOMAIN old : old[k].id = fieldId
                 IN /\ Len(new) = Len(old) - 1
                    /\ \A k \in DOMAIN new :
                          LET was == IF k < at THEN old[k] ELSE old[k + 1] IN
                          /\ new[k].position = k - 1
                          /\ [new[k] EXCEPT !.position = was.position] = was
       ]_vars

\* C32 witness: the first field of the two-field blueprint has been deleted
\* and the signature field is at position 0.
C32_Witness ==
    /\ result.op = "deleteField" /\ result.ret = TRUE
    /\ getBlueprint(ScenarioBlueprintId) # Undefined
    /\ Len(getBlueprint(ScenarioBlueprintId).fields) = 1
    /\ getBlueprint(ScenarioBlueprintId).fields[1].id = "f-signature"
    /\ getBlueprint(ScenarioBlueprintId).fields[1].position = 0

\* C33: reorderFields swaps the field with its neighbour above (up) or below
\* (down), keeps every other field at its place, gives every field the
\* position of its place and keeps the same fields; on the first field
\* (up) or the last (down) the blueprints are left as they were.
C33_ReorderSwapsNeighbours ==
    [][result'.op = "reorderFields" =>
          \A blueprintId \in FieldsBlueprintIdInputs : \A fieldId \in FieldsFieldIdInputs :
          \A direction \in Directions :
              (/\ getBlueprint(blueprintId) # Undefined
               /\ some(getBlueprint(blueprintId).fields, LAMBDA f : f.id = fieldId)
               /\ reorderFields(blueprintId, fieldId, direction)) =>
                 LET old == getBlueprint(blueprintId).fields
                     at == CHOOSE k \in DOMAIN old : old[k].id = fieldId
                     to == IF direction = "up" THEN at - 1 ELSE at + 1
                 IN IF to \notin DOMAIN old
                    THEN result'.ret = FALSE /\ blueprints' = blueprints
                    ELSE LET new == C32_After(blueprintId).fields IN
                         /\ result'.ret = TRUE
                         /\ Len(new) = Len(old)
                         /\ \A k \in DOMAIN new :
                               LET was == IF k = at THEN old[to]
                                          ELSE IF k = to THEN old[at]
                                          ELSE old[k] IN
                               /\ new[k].position = k - 1
                               /\ [new[k] EXCEPT !.position = was.position] = was
       ]_vars

\* C33 witness: the two fields of the blueprint have changed places and have
\* positions 0 and 1.
C33_Witness ==
    /\ result.op = "reorderFields" /\ result.ret = TRUE
    /\ getBlueprint(ScenarioBlueprintId) # Undefined
    /\ Len(getBlueprint(ScenarioBlueprintId).fields) = 2
    /\ getBlueprint(ScenarioBlueprintId).fields[1].id = "f-signature"
    /\ getBlueprint(ScenarioBlueprintId).fields[1].position = 0
    /\ getBlueprint(ScenarioBlueprintId).fields[2].id = "f-text"
    /\ getBlueprint(ScenarioBlueprintId).fields[2].position = 1

\* The step stamps the blueprint of that id and nothing else of the catalog.
C34_Stamped(blueprintId) ==
    /\ Len(blueprints') = Len(blueprints)
    /\ \A i \in DOMAIN blueprints :
          IF blueprints[i].id = blueprintId
          THEN /\ blueprints'[i].updatedAt = now'
               /\ blueprints'[i].id = blueprints[i].id
               /\ blueprints'[i].createdAt = blueprints[i].createdAt
          ELSE blueprints'[i] = blueprints[i]

\* C34: an addField, updateField, deleteField or reorderFields that takes
\* effect sets the blueprint's updatedAt to the time of the call and leaves
\* its id, its createdAt and every other blueprint as they were.
C34_FieldOpsStampBlueprint ==
    [][\A blueprintId \in FieldsBlueprintIdInputs :
          /\ result'.op = "addField" =>
                \A fieldData \in FieldDataInputs :
                    (addField(blueprintId, fieldData) /\ result'.ret # Undefined)
                        => C34_Stamped(blueprintId)
          /\ result'.op \in {"updateField", "deleteField", "reorderFields"} =>
                \A fieldId \in FieldsFieldIdInputs :
                    /\ \A updates \in FieldPatchInputs :
                          (updateField(blueprintId, fieldId, updates) /\ result'.ret)
                              => C34_Stamped(blueprintId)
                    /\ (deleteField(blueprintId, fieldId) /\ result'.ret)
                          => C34_Stamped(blueprintId)
                    /\ \A direction \in Directions :
                          (reorderFields(blueprintId, fieldId, direction) /\ result'.ret)
                              => C34_Stamped(blueprintId)
       ]_vars

\* C34 witness: a field was added to the two-field blueprint at an instant
\* after its creation and the blueprint's updatedAt is that instant.
C34_Witness ==
    /\ result.op = "addField" /\ result.ret # Undefined
    /\ getBlueprint(ScenarioBlueprintId) # Undefined
    /\ Len(getBlueprint(ScenarioBlueprintId).fields) = 3
    /\ getBlueprint(ScenarioBlueprintId).updatedAt = now
    /\ getBlueprint(ScenarioBlueprintId).createdAt < now

\* C35 helper: call i of the debounced function is the last of its burst:
\* no call follows it, or the next one comes DebounceMs or more after it
C35_EndsBurst(i) ==
    \/ i = Len(debounced.calls)
    \/ debounced.calls[i + 1].at >= debounced.calls[i].at + DebounceMs

\* C35 helper: the invocations of fn that the timer of call i made
C35_InvocationsOf(i) ==
    {k \in DOMAIN debounced.invoked : debounced.invoked[k].call = i}

C36_RevertRestoresEditing ==
    [][\A id \in ContractIdInputs : present(contracts, id) =>
          /\ result'.op = "updateContractFields" =>
                \A fields \in FieldsInputs(id) :
                    updateContractFields(id, fields) =>
                       /\ contractIn(contracts, id).status = "APPROVED"
                             => result'.ret = FALSE /\ contracts' = contracts
                       /\ contractIn(contracts, id).status = "CREATED"
                             => /\ result'.ret = TRUE
                                /\ contractIn(contracts', id).fields = fields
          /\ (/\ result'.op = "transitionStatus"
              /\ contractIn(contracts, id).status = "APPROVED"
              /\ transitionStatus(id, "CREATED"))
                => /\ result'.ret = TRUE
                   /\ contractIn(contracts', id).status = "CREATED"
       ]_vars

\* C36 witness: a contract that has been approved and reverted twice takes
\* an edit.
C36_Witness ==
    /\ result.op = "updateContractFields" /\ result.ret = TRUE
    /\ Len(contracts) = 1
    /\ history[contracts[1].id] = <<"APPROVED", "CREATED", "APPROVED", "CREATED">>
    /\ \E k \in DOMAIN contracts[1].fields : contracts[1].fields[k].value = "Acme Corp"

\* The statuses one successful transition away from a status of the set.
C37_Successors(S) == {t \in Statuses : \E s \in S : canTransition(s, t)}

\* The statuses some sequence of one or more successful transitions leads to.
C37_Reachable(from) ==
    LET grow[n \in 0..Cardinality(Statuses)] ==
            IF n = 0 THEN C37_Successors({from})
            ELSE LET sofar == grow[n - 1] IN sofar \cup C37_Successors(sofar)
    IN grow[Cardinality(Statuses)]

\* C37: the statuses that can be reached again from themselves are CREATED
\* and APPROVED only; a contract that has reached SENT has made at most two
\* transitions since; and from every status that is not terminal some
\* sequence of transitions leads to LOCKED or REVOKED.
C37_OneCycleThenForward ==
    /\ {s \in Statuses : s \in C37_Reachable(s)} = {"CREATED", "APPROVED"}
    /\ \A s \in Statuses :
          ~isTerminal(s) => \E t \in C37_Reachable(s) : t \in {"LOCKED", "REVOKED"}
    /\ \A id \in ContractIdInputs : \A k \in DOMAIN history[id] :
          history[id][k] = "SENT" => Len(history[id]) - k <= 2

\* C37 witness: a contract went from SENT to SIGNED to LOCKED and a further
\* transitionStatus call on it has been refused.
C37_Witness ==
    /\ result.op = "transitionStatus" /\ result.ret = FALSE
    /\ Len(contracts) = 1
    /\ contracts[1].status = "LOCKED"
    /\ LET h == history[contracts[1].id] IN
       /\ Len(h) >= 3
       /\ h[Len(h) - 2] = "SENT"
       /\ h[Len(h) - 1] = "SIGNED"

\* C38: after a load the four seeds are the built-in definitions, whatever
\* the storage held for their ids, and the contracts, those created from an
\* edited seed included, are as they were.
C38_ReloadRestoresSeeds ==
    [][result'.op = "hydrate" =>
          /\ Len(blueprints') >= Len(DEFAULT_BLUEPRINTS)
          /\ \A i \in DOMAIN DEFAULT_BLUEPRINTS : blueprints'[i] = DEFAULT_BLUEPRINTS[i]
          /\ \A i \in DOMAIN blueprints' :
                i > Len(DEFAULT_BLUEPRINTS) =>
                    \A j \in DOMAIN DEFAULT_BLUEPRINTS :
                        blueprints'[i].id # DEFAULT_BLUEPRINTS[j].id
          /\ contracts' = contracts
       ]_vars

\* C38 witness: the store was rebuilt from a storage whose NDA seed had its
\* first field relabelled; the seed has its built-in label again and a
\* contract created from the edited seed still has the edited one.
C38_Witness ==
    /\ result.op = "hydrate"
    /\ result.ret # Undefined
    /\ \E i \in DOMAIN result.ret.blueprints :
          /\ result.ret.blueprints[i].id = "default-nda"
          /\ Len(result.ret.blueprints[i].fields) > 0
          /\ result.ret.blueprints[i].fields[1].label = "Disclosing Party"
    /\ getBlueprint("default-nda").fields[1].label = "Receiving Party Name"
    /\ \E i \in DOMAIN contracts :
          /\ contracts[i].blueprintId = "default-nda"
          /\ contracts[i].fields[1].label = "Disclosing Party"

====
